---- MODULE Spec2Model ----
(***************************************************************************)
(* Turn-based battle of BattleScene (multi-phase boss version): a party of *)
(* three pets against the Sodium Serpent.  The state is the scene's battle *)
(* fields, the visible menu (which decides what input handlers can fire),  *)
(* and the position of the one asynchronous turn resolution in flight.     *)
(* Every Math.random() draw is a choice from Rolls (a value of             *)
(* Math.random() * 100), except that the battle explores one draw of the   *)
(* critical-hit check and of the damage variance: the flow of a turn reads *)
(* a damage only through the HP it leaves.                                 *)
(***************************************************************************)
EXTENDS Integers, Sequences, FiniteSets, TLC

\* ------------------------------------------------------------------ bounds
\* accepted player actions (skill or swap) per explored battle
MaxTurns == 1
\* HP of a weakened combatant in a mid-battle starting position
LowHP == 2
\* battles the one scene object is started for
MaxBattles == 2

\* values of Math.random() * 100 the model draws
Rolls == {0, 99}

\* the draws of the critical-hit check and of the damage variance
CritRolls == {99}

VarianceRolls == {99}

\* the same, where the draw picks an index among up to three entries
IndexRolls == {0, 50, 99}

\* ------------------------------------------------------------ content data
NONE == "NONE"

Stats == {"ATTACK", "DEFENSE", "SPEED", "ACCURACY", "EVASION"}

PartyIdx == 0 .. 2

STAT_STAGE_MULTIPLIERS ==
  [s \in -6 .. 6 |->
     CASE s = -6 -> 25  [] s = -5 -> 28  [] s = -4 -> 33  [] s = -3 -> 40
       [] s = -2 -> 50  [] s = -1 -> 66  [] s = 0  -> 100 [] s = 1  -> 150
       [] s = 2  -> 200 [] s = 3  -> 250 [] s = 4  -> 300 [] s = 5  -> 350
       [] s = 6  -> 400]

CRITICAL_HIT_CHANCE == 625

DEHYDRATED_DAMAGE_PERCENT == 10

BURNED_DAMAGE_PERCENT == 12

GREASED_SPEED_STAGE == -2

SOUR_ACCURACY_STAGE == -1

Max(a, b) == IF a >= b THEN a ELSE b

Min(a, b) == IF a <= b THEN a ELSE b

\* multiplier of a stage, in hundredths
getStatMultiplier(stage) == STAT_STAGE_MULTIPLIERS[Max(-6, Min(6, stage))]

TYPE_CHART ==
  [PROTEIN   |-> [superEffectiveAgainst |-> {"CARB"},
                  notVeryEffectiveAgainst |-> {"FIBER", "FAT"},
                  noEffectAgainst |-> {}],
   CARB      |-> [superEffectiveAgainst |-> {"FAT"},
                  notVeryEffectiveAgainst |-> {"PROCESSED", "PROTEIN"},
                  noEffectAgainst |-> {}],
   FAT       |-> [superEffectiveAgainst |-> {"PROTEIN"},
                  notVeryEffectiveAgainst |-> {"CARB", "FIBER"},
                  noEffectAgainst |-> {}],
   FIBER     |-> [superEffectiveAgainst |-> {"PROCESSED", "FAT", "OIL"},
                  notVeryEffectiveAgainst |-> {"PROTEIN"},
                  noEffectAgainst |-> {}],
   PROCESSED |-> [superEffectiveAgainst |-> {"CARB", "PROTEIN"},
                  notVeryEffectiveAgainst |-> {"FIBER"},
                  noEffectAgainst |-> {}],
   OIL       |-> [superEffectiveAgainst |-> {"PROTEIN", "CARB"},
                  notVeryEffectiveAgainst |-> {"FIBER", "FAT"},
                  noEffectAgainst |-> {}]]

TYPE_ACCURACY_PENALTIES ==
  [PROTEIN   |-> [poorMatchups |-> {"FAT"},     accuracyModifier |-> 6],
   CARB      |-> [poorMatchups |-> {"PROTEIN"}, accuracyModifier |-> 6],
   FAT       |-> [poorMatchups |-> {},          accuracyModifier |-> 10],
   FIBER     |-> [poorMatchups |-> {},          accuracyModifier |-> 10],
   PROCESSED |-> [poorMatchups |-> {"FIBER"},   accuracyModifier |-> 6],
   OIL       |-> [poorMatchups |-> {"FIBER"},   accuracyModifier |-> 6]]

\* variant: only the defender's first type counts
TypeFold_firstTypeOnly(matchup, defenderTypes, acc) ==
  IF defenderTypes = << >> THEN acc
  ELSE LET defType == Head(defenderTypes) IN
       IF defType \in matchup.noEffectAgainst THEN 0
       ELSE IF defType \in matchup.superEffectiveAgainst THEN acc * 2
       ELSE IF defType \in matchup.notVeryEffectiveAgainst THEN acc \div 2
       ELSE acc

\* type multiplier in quarters (4 = x1.0), folded over the defender's types
RECURSIVE TypeFold(_, _, _)
TypeFold(matchup, defenderTypes, acc) ==
  IF defenderTypes = << >> THEN acc
  ELSE LET defType == Head(defenderTypes) IN
       IF defType \in matchup.noEffectAgainst THEN 0
       ELSE IF defType \in matchup.superEffectiveAgainst
            THEN TypeFold(matchup, Tail(defenderTypes), acc * 2)
       ELSE IF defType \in matchup.notVeryEffectiveAgainst
            THEN TypeFold(matchup, Tail(defenderTypes), acc \div 2)
       ELSE TypeFold(matchup, Tail(defenderTypes), acc)

calculateTypeMultiplier(attackType, defenderTypes) ==
  TypeFold(TYPE_CHART[attackType], defenderTypes, 4)

\* accuracy modifier in tenths (6 = 0.6, 10 = 1.0)
getTypeAccuracyModifier(attackType, defenderTypes) ==
  IF attackType = NONE THEN 10
  ELSE IF \E i \in 1 .. Len(defenderTypes) :
            defenderTypes[i] \in TYPE_ACCURACY_PENALTIES[attackType].poorMatchups
       THEN TYPE_ACCURACY_PENALTIES[attackType].accuracyModifier
       ELSE 10

\* ------------------------------------------------------------------ skills
BaseSkill ==
  [name |-> NONE, category |-> "PHYSICAL", type |-> NONE, power |-> 0,
   accuracy |-> 0, neverMiss |-> FALSE, statusEffect |-> NONE,
   statusChance |-> 0, statModifier |-> NONE, statChange |-> 0,
   targetSelf |-> FALSE, multihit |-> << >>, healOnKO |-> 0,
   bonusAgainstType |-> NONE, purifyHazards |-> FALSE, purifyDuration |-> 0]

CitrusBite ==
  [BaseSkill EXCEPT !.name = "Citrus Bite", !.category = "PHYSICAL",
     !.type = "FIBER", !.power = 70, !.accuracy = 95,
     !.statusEffect = "SOUR", !.statusChance = 30]

AcidReflux ==
  [BaseSkill EXCEPT !.name = "Acid Reflux", !.category = "SPECIAL",
     !.type = "FIBER", !.power = 60, !.accuracy = 100,
     !.bonusAgainstType = "PROCESSED"]

SaltySting ==
  [BaseSkill EXCEPT !.name = "Salty Sting", !.category = "PHYSICAL",
     !.type = "PROTEIN", !.power = 65, !.accuracy = 100]

NoriBind ==
  [BaseSkill EXCEPT !.name = "Nori Bind", !.category = "UTILITY",
     !.power = 40, !.accuracy = 95,
     !.statusEffect = "TRAPPED", !.statusChance = 100]

CrustHunker ==
  [BaseSkill EXCEPT !.name = "Crust Hunker", !.category = "BUFF",
     !.statModifier = "DEFENSE", !.statChange = 2, !.targetSelf = TRUE]

BerryBombard ==
  [BaseSkill EXCEPT !.name = "Berry Bombard", !.category = "RANGED",
     !.type = "FIBER", !.power = 35, !.accuracy = 90,
     !.multihit = <<2, 3>>]

BATTLE_PETS ==
  [i \in PartyIdx |->
     CASE i = 0 -> [name |-> "Lemon Shark", types |-> <<"FIBER">>,
                    maxHP |-> 120, attack |-> 90, defense |-> 70,
                    speed |-> 85, skills |-> <<CitrusBite, AcidReflux>>]
       [] i = 1 -> [name |-> "Musubee", types |-> <<"PROTEIN", "CARB">>,
                    maxHP |-> 110, attack |-> 95, defense |-> 65,
                    speed |-> 95, skills |-> <<SaltySting, NoriBind>>]
       [] i = 2 -> [name |-> "Tart-le", types |-> <<"FIBER", "CARB">>,
                    maxHP |-> 130, attack |-> 70, defense |-> 100,
                    speed |-> 50, skills |-> <<CrustHunker, BerryBombard>>]]

GreaseSlam ==
  [BaseSkill EXCEPT !.name = "Grease Slam", !.category = "PHYSICAL",
     !.type = "FAT", !.power = 80, !.accuracy = 90,
     !.statusEffect = "GREASED", !.statusChance = 30]

SaltSpray ==
  [BaseSkill EXCEPT !.name = "Salt Spray", !.category = "RANGED",
     !.type = "PROCESSED", !.power = 60, !.accuracy = 100,
     !.neverMiss = TRUE,
     !.statusEffect = "DEHYDRATED", !.statusChance = 100]

SodiumOverload ==
  [BaseSkill EXCEPT !.name = "Sodium Overload", !.category = "ULTIMATE",
     !.type = "PROCESSED", !.power = 120, !.accuracy = 85,
     !.healOnKO = 20]

BurningOilSlam ==
  [BaseSkill EXCEPT !.name = "Burning Oil Slam", !.category = "PHYSICAL",
     !.type = "OIL", !.power = 95, !.accuracy = 90,
     !.statusEffect = "BURNED", !.statusChance = 60]

ToxicHeatwave ==
  [BaseSkill EXCEPT !.name = "Toxic Heatwave", !.category = "SPECIAL",
     !.type = "OIL", !.power = 75, !.accuracy = 100, !.neverMiss = TRUE,
     !.statusEffect = "BURNED", !.statusChance = 100]

GreaseFireEruption ==
  [BaseSkill EXCEPT !.name = "Grease Fire Eruption",
     !.category = "ULTIMATE", !.type = "OIL", !.power = 150,
     !.accuracy = 80, !.healOnKO = 40]

FrenziedSlam ==
  [BaseSkill EXCEPT !.name = "Frenzied Slam", !.category = "PHYSICAL",
     !.type = "FAT", !.power = 110, !.accuracy = 85,
     !.statusEffect = "GREASED", !.statusChance = 100]

SludgeBurst ==
  [BaseSkill EXCEPT !.name = "Sludge Burst", !.category = "SPECIAL",
     !.type = "PROCESSED", !.power = 90, !.accuracy = 95,
     !.statusEffect = "DEHYDRATED", !.statusChance = 70]

DyingBreath ==
  [BaseSkill EXCEPT !.name = "Dying Breath", !.category = "ULTIMATE",
     !.type = "PROCESSED", !.power = 0, !.accuracy = 70,
     !.healOnKO = 60]

NoPassive ==
  [name |-> NONE, evadeChance |-> 0, statusImmune |-> FALSE,
   priority |-> 0, attackGainPerTurn |-> 0]

NoHazard == [type |-> NONE, damagePercent |-> 0]

\* bossData.phases of the Sodium Serpent
Phases ==
  <<[phaseNumber |-> 1, types |-> <<"PROCESSED", "FAT">>,
     maxHP |-> 150, attack |-> 85, defense |-> 80, speed |-> 60,
     passiveAbility |-> [NoPassive EXCEPT !.name = "Slippery Scales",
                                          !.evadeChance = 20],
     moveset |-> <<GreaseSlam, SaltSpray, SodiumOverload>>,
     environmentalHazard |-> NoHazard],
    [phaseNumber |-> 2, types |-> <<"OIL", "PROCESSED">>,
     maxHP |-> 250, attack |-> 95, defense |-> 70, speed |-> 85,
     passiveAbility |-> [NoPassive EXCEPT !.name = "Boiling Rage",
                                          !.statusImmune = TRUE],
     moveset |-> <<BurningOilSlam, ToxicHeatwave, GreaseFireEruption>>,
     environmentalHazard |-> [type |-> "BOILING_SWAMP", damagePercent |-> 8]],
    [phaseNumber |-> 3, types |-> <<"PROCESSED", "FAT">>,
     maxHP |-> 200, attack |-> 100, defense |-> 50, speed |-> 95,
     passiveAbility |-> [NoPassive EXCEPT !.name = "Cornered Predator",
                                          !.priority = 1,
                                          !.attackGainPerTurn = 1],
     moveset |-> <<FrenziedSlam, SludgeBurst, DyingBreath>>,
     environmentalHazard |-> NoHazard]>>

\* --------------------------------------------------------- pure arithmetic
RECURSIVE GCD(_, _)
GCD(a, b) == IF b = 0 THEN a ELSE GCD(b, a % b)

\* the fraction n/d times n2/d2, kept in lowest terms
FracMul(f, n2, d2) ==
  LET g1 == GCD(f[1], d2)
      g2 == GCD(n2, f[2])
      h1 == IF g1 = 0 THEN 1 ELSE g1
      h2 == IF g2 = 0 THEN 1 ELSE g2
  IN  <<(f[1] \div h1) * (n2 \div h2), (f[2] \div h2) * (d2 \div h1)>>

\* variant: the ratio of the two stats is taken the other way round
calculateDamage_ratioInverted(attackerAttack, defenderDefense, movePower, typeMultiplier, isCritical, varianceRoll) ==
  LET n0 == 12 * defenderDefense * movePower + 500 * attackerAttack
      d0 == 250 * attackerAttack
      g0 == GCD(n0, d0)
      baseDamage == <<n0 \div g0, d0 \div g0>>
      typed == FracMul(baseDamage, typeMultiplier, 8)
      crit == IF isCritical THEN FracMul(typed, 3, 2) ELSE typed
      damage == FracMul(crit, 8500 + 15 * varianceRoll, 10000)
  IN  Max(1, damage[1] \div damage[2])

\* attack and defense in hundredths, typeMultiplier in eighths (type
\* quarters times bonus halves), varianceRoll a value of Math.random()*100
calculateDamage(attackerAttack, defenderDefense, movePower, typeMultiplier, isCritical, varianceRoll) ==
  LET n0 == 12 * attackerAttack * movePower + 500 * defenderDefense
      d0 == 250 * defenderDefense
      g0 == GCD(n0, d0)
      baseDamage == <<n0 \div g0, d0 \div g0>>
      typed == FracMul(baseDamage, typeMultiplier, 8)
      crit == IF isCritical THEN FracMul(typed, 3, 2) ELSE typed
      damage == FracMul(crit, 8500 + 15 * varianceRoll, 10000)
  IN  Max(1, damage[1] \div damage[2])

checkAccuracy(moveAccuracy, attackerAccuracyStage, defenderEvasionStage, roll) ==
  LET netStage == attackerAccuracyStage - defenderEvasionStage
      stageMultiplier == STAT_STAGE_MULTIPLIERS[Max(-6, Min(6, netStage))]
  IN  roll * 1000 < moveAccuracy * stageMultiplier

checkCriticalHit(baseCritChance, roll) == roll * 100 < baseCritChance

\* ------------------------------------------------------------------- state
VARIABLES
  battleState,          \* BattleState
  playerParty,          \* index -> [id, currentHP, maxHP, statusEffects, statModifiers]
  activePlayerIndex,
  playerCombatant,      \* index of the party member playerCombatant refers to
  enemyCombatant,
  currentPhase,
  environmentalHazard,
  hazardPurifiedTurns,
  menu,                 \* which menu container is visible and takes clicks
  swapSlots,            \* indices clickable in the open swap menu
  pc,                   \* position of the turn resolution in flight
  playerSkill,          \* executeTurn's playerSkill
  enemySkill,           \* executeTurn's enemySkill
  firstMover,           \* the branch executeTurn took: "P" or "E"
  swapTarget,           \* onPetSwapSelected's newIndex
  exitPending,          \* a delayedCall that ends in scene.start is pending
  exited,               \* scene.start ran: timers and input of the scene are gone
  turns,                \* accepted player actions so far
  log,                  \* what this resolution did since the last player action
  notice                \* the rejection that answered the last click on the
                        \* action menu, NONE when the click was accepted

vars ==
  <<battleState, playerParty, activePlayerIndex, playerCombatant,
    enemyCombatant, currentPhase, environmentalHazard, hazardPurifiedTurns,
    menu, swapSlots, pc, playerSkill, enemySkill, firstMover, swapTarget,
    exitPending, exited, turns, log, notice>>

Terminal == {"VICTORY", "DEFEAT", "FLED"}

ZeroStages == [s \in Stats |-> 0]

\* a party member as initializeCombatants builds it
NewPet(i) ==
  [id |-> i, currentHP |-> BATTLE_PETS[i].maxHP, maxHP |-> BATTLE_PETS[i].maxHP,
   statusEffects |-> << >>, statModifiers |-> ZeroStages]

\* ------------------------------------------------- combatants of one battle
\* w = [party, pidx, enemy, purified, hazard]; side "P" is playerCombatant,
\* side "E" is enemyCombatant
World ==
  [party |-> playerParty, pidx |-> playerCombatant, enemy |-> enemyCombatant,
   purified |-> hazardPurifiedTurns, hazard |-> environmentalHazard]

Other(side) == IF side = "P" THEN "E" ELSE "P"

HP(w, side) ==
  IF side = "P" THEN w.party[w.pidx].currentHP ELSE w.enemy.currentHP

MaxHP(w, side) ==
  IF side = "P" THEN w.party[w.pidx].maxHP ELSE w.enemy.maxHP

BaseAttack(w, side) ==
  IF side = "P" THEN BATTLE_PETS[w.party[w.pidx].id].attack ELSE w.enemy.baseAttack

BaseDefense(w, side) ==
  IF side = "P" THEN BATTLE_PETS[w.party[w.pidx].id].defense ELSE w.enemy.baseDefense

BaseSpeed(w, side) ==
  IF side = "P" THEN BATTLE_PETS[w.party[w.pidx].id].speed ELSE w.enemy.baseSpeed

TypesOf(w, side) ==
  IF side = "P" THEN BATTLE_PETS[w.party[w.pidx].id].types ELSE w.enemy.types

StatusOf(w, side) ==
  IF side = "P" THEN w.party[w.pidx].statusEffects ELSE w.enemy.statusEffects

Stage(w, side, stat) ==
  IF side = "P" THEN w.party[w.pidx].statModifiers[stat]
  ELSE w.enemy.statModifiers[stat]

PassiveOf(w, side) ==
  IF side = "P" THEN NoPassive ELSE w.enemy.passiveAbility

SetHP(w, side, v) ==
  IF side = "P" THEN [w EXCEPT !.party[w.pidx].currentHP = v]
  ELSE [w EXCEPT !.enemy.currentHP = v]

SetStatus(w, side, v) ==
  IF side = "P" THEN [w EXCEPT !.party[w.pidx].statusEffects = v]
  ELSE [w EXCEPT !.enemy.statusEffects = v]

SetStage(w, side, stat, v) ==
  IF side = "P" THEN [w EXCEPT !.party[w.pidx].statModifiers[stat] = v]
  ELSE [w EXCEPT !.enemy.statModifiers[stat] = v]

Includes(seq, x) == \E i \in 1 .. Len(seq) : seq[i] = x

Without(seq, x) == SelectSeq(seq, LAMBDA y : y # x)

\* --------------------------------------------------------- move execution
\* variant: the status is added without looking for it first
applyStatusEffect_unchecked(w, target, status) ==
  LET w1 == SetStatus(w, target, Append(StatusOf(w, target), status)) IN
  IF status = "GREASED"
  THEN SetStage(w1, target, "SPEED",
                Max(-6, Stage(w1, target, "SPEED") + GREASED_SPEED_STAGE))
  ELSE IF status = "SOUR"
  THEN SetStage(w1, target, "ACCURACY",
                Max(-6, Stage(w1, target, "ACCURACY") + SOUR_ACCURACY_STAGE))
  ELSE w1

\* applyStatusEffect: nothing happens when the target has the status
applyStatusEffect(w, target, status) ==
  IF Includes(StatusOf(w, target), status) THEN w
  ELSE LET w1 == SetStatus(w, target, Append(StatusOf(w, target), status)) IN
       IF status = "GREASED"
       THEN SetStage(w1, target, "SPEED",
                     Max(-6, Stage(w1, target, "SPEED") + GREASED_SPEED_STAGE))
       ELSE IF status = "SOUR"
       THEN SetStage(w1, target, "ACCURACY",
                     Max(-6, Stage(w1, target, "ACCURACY") + SOUR_ACCURACY_STAGE))
       ELSE w1

\* variant: the damage is subtracted without the floor at 0
OneHit_unfloored(w, attacker, defender, skill, hr) ==
  LET typeMultiplier ==
        IF skill.type # NONE
        THEN calculateTypeMultiplier(skill.type, TypesOf(w, defender)) ELSE 4
      bonusMultiplier ==
        IF skill.bonusAgainstType # NONE
           /\ Includes(TypesOf(w, defender), skill.bonusAgainstType)
        THEN 3 ELSE 2
      critChance ==
        IF skill.name = "Salty Sting" THEN 2500 ELSE CRITICAL_HIT_CHANCE
      isCritical == checkCriticalHit(critChance, hr.crit)
      attack == BaseAttack(w, attacker)
                  * getStatMultiplier(Stage(w, attacker, "ATTACK"))
      defense == BaseDefense(w, defender)
                  * getStatMultiplier(Stage(w, defender, "DEFENSE"))
      damage == calculateDamage(attack, defense,
                                IF skill.power # 0 THEN skill.power ELSE 50,
                                typeMultiplier * bonusMultiplier,
                                isCritical, hr.var)
  IN  SetHP(w, defender, HP(w, defender) - damage)

\* one hit of the loop of executeDamagingSkill; hr = [crit, var]
OneHit(w, attacker, defender, skill, hr) ==
  LET typeMultiplier ==
        IF skill.type # NONE
        THEN calculateTypeMultiplier(skill.type, TypesOf(w, defender)) ELSE 4
      bonusMultiplier ==
        IF skill.bonusAgainstType # NONE
           /\ Includes(TypesOf(w, defender), skill.bonusAgainstType)
        THEN 3 ELSE 2
      critChance ==
        IF skill.name = "Salty Sting" THEN 2500 ELSE CRITICAL_HIT_CHANCE
      isCritical == checkCriticalHit(critChance, hr.crit)
      attack == BaseAttack(w, attacker)
                  * getStatMultiplier(Stage(w, attacker, "ATTACK"))
      defense == BaseDefense(w, defender)
                  * getStatMultiplier(Stage(w, defender, "DEFENSE"))
      damage == calculateDamage(attack, defense,
                                IF skill.power # 0 THEN skill.power ELSE 50,
                                typeMultiplier * bonusMultiplier,
                                isCritical, hr.var)
  IN  SetHP(w, defender, Max(0, HP(w, defender) - damage))

RECURSIVE HitLoop(_, _, _, _, _, _)
HitLoop(w, attacker, defender, skill, hitRolls, n) ==
  IF n = 0 THEN w
  ELSE HitLoop(OneHit(w, attacker, defender, skill, Head(hitRolls)),
               attacker, defender, skill, Tail(hitRolls), n - 1)

\* r = [acc, evade, hits, hit (three [crit, var]), status]
executeDamagingSkill(w, attacker, defender, skill, r) ==
  LET hits ==
        IF skill.multihit # << >>
        THEN ((r.hits * (skill.multihit[2] - skill.multihit[1] + 1)) \div 100)
               + skill.multihit[1]
        ELSE 1
      w1 == HitLoop(w, attacker, defender, skill, r.hit, hits)
      w2 == IF skill.statusEffect # NONE /\ skill.statusChance # 0
               /\ r.status < skill.statusChance
            THEN applyStatusEffect(w1, defender, skill.statusEffect)
            ELSE w1
  IN  IF skill.healOnKO # 0 /\ HP(w2, defender) = 0
      THEN SetHP(w2, attacker,
                 Min(MaxHP(w2, attacker),
                     HP(w2, attacker)
                       + (MaxHP(w2, attacker) * skill.healOnKO) \div 100))
      ELSE w2

executeNonDamagingSkill(w, attacker, defender, skill, r) ==
  LET target == IF skill.targetSelf THEN attacker ELSE defender
      w1 == IF skill.statModifier # NONE /\ skill.statChange # 0
            THEN SetStage(w, target, skill.statModifier,
                          Max(-6, Min(6, Stage(w, target, skill.statModifier)
                                           + skill.statChange)))
            ELSE w
      w2 == IF skill.statusEffect # NONE /\ skill.statusChance # 0
               /\ r.status < skill.statusChance
            THEN applyStatusEffect(w1, defender, skill.statusEffect)
            ELSE w1
      w3 == IF skill.category = "HEAL"
            THEN SetHP(w2, attacker,
                       Min(MaxHP(w2, attacker),
                           HP(w2, attacker) + MaxHP(w2, attacker) \div 4))
            ELSE w2
  IN  IF skill.purifyHazards /\ w3.hazard # NoHazard
      THEN [w3 EXCEPT !.purified =
              IF skill.purifyDuration # 0 THEN skill.purifyDuration ELSE 3]
      ELSE w3

\* variant: a strike that misses still rolls for its status
executeSkill_statusOnMiss(w, attacker, defender, skill, r) ==
  IF skill.power = 0
  THEN executeNonDamagingSkill(w, attacker, defender, skill, r)
  ELSE IF ~skill.neverMiss
          /\ ~checkAccuracy(
                (IF skill.accuracy # 0 THEN skill.accuracy ELSE 100)
                  * getTypeAccuracyModifier(skill.type, TypesOf(w, defender)),
                Stage(w, attacker, "ACCURACY"),
                Stage(w, defender, "EVASION"), r.acc)
  THEN IF skill.statusEffect # NONE /\ r.status < skill.statusChance
       THEN applyStatusEffect(w, defender, skill.statusEffect)
       ELSE w
  ELSE IF attacker # "P"
          /\ PassiveOf(w, defender).evadeChance # 0
          /\ skill.category = "PHYSICAL"
          /\ r.evade < PassiveOf(w, defender).evadeChance
  THEN w
  ELSE executeDamagingSkill(w, attacker, defender, skill, r)

\* variant: the accuracy check is made for every damaging skill
executeSkill_alwaysChecked(w, attacker, defender, skill, r) ==
  IF skill.power = 0
  THEN executeNonDamagingSkill(w, attacker, defender, skill, r)
  ELSE IF ~checkAccuracy(
                (IF skill.accuracy # 0 THEN skill.accuracy ELSE 100)
                  * getTypeAccuracyModifier(skill.type, TypesOf(w, defender)),
                Stage(w, attacker, "ACCURACY"),
                Stage(w, defender, "EVASION"), r.acc)
  THEN w
  ELSE IF attacker # "P"
          /\ PassiveOf(w, defender).evadeChance # 0
          /\ skill.category = "PHYSICAL"
          /\ r.evade < PassiveOf(w, defender).evadeChance
  THEN w
  ELSE executeDamagingSkill(w, attacker, defender, skill, r)

\* executeSkill after its announcement: power, accuracy, evasion, damage
executeSkill(w, attacker, defender, skill, r) ==
  IF skill.power = 0
  THEN executeNonDamagingSkill(w, attacker, defender, skill, r)
  ELSE IF ~skill.neverMiss
          /\ ~checkAccuracy(
                (IF skill.accuracy # 0 THEN skill.accuracy ELSE 100)
                  * getTypeAccuracyModifier(skill.type, TypesOf(w, defender)),
                Stage(w, attacker, "ACCURACY"),
                Stage(w, defender, "EVASION"), r.acc)
  THEN w
  ELSE IF attacker # "P"
          /\ PassiveOf(w, defender).evadeChance # 0
          /\ skill.category = "PHYSICAL"
          /\ r.evade < PassiveOf(w, defender).evadeChance
  THEN w
  ELSE executeDamagingSkill(w, attacker, defender, skill, r)

HitRolls == [crit : CritRolls, var : VarianceRolls]

\* the draws one executeSkill call can make
SkillRolls(skill) ==
  [acc : Rolls, evade : Rolls, hits : Rolls, status : Rolls,
   hit : IF skill.multihit # << >>
         THEN [1 .. 3 -> HitRolls]
         ELSE {<<h>> : h \in HitRolls}]

\* every outcome of one executeSkill call in w
SkillOutcomes(w, attacker, defender, skill) ==
  {executeSkill(w, attacker, defender, skill, r) : r \in SkillRolls(skill)}

\* ------------------------------------------------------------------ boss AI
\* Array.prototype.find: the first of the indices hits, 0 when there is none
FirstIndex(hits) ==
  IF hits = {} THEN 0
  ELSE CHOOSE i \in hits : \A j \in hits : i <= j

IsUltimate(s) == s.category = "ULTIMATE"

IsStatusMove(s) == s.statusEffect # NONE /\ s.statusChance # 0

IsDamageMove(s) == s.power # 0 /\ s.category # "ULTIMATE"

\* first status move, scanning from index i, that the loop of strategy 2
\* returns; 0 when the loop falls through
RECURSIVE StatusScan(_, _, _, _)
StatusScan(w, skills, i, r) ==
  IF i > Len(skills) THEN 0
  ELSE IF IsStatusMove(skills[i])
          /\ ~Includes(StatusOf(w, "P"), skills[i].statusEffect)
          /\ (skills[i].statusChance >= 70 \/ r.s[i] < 70)
       THEN i
       ELSE StatusScan(w, skills, i + 1, r)

\* variant: the AI chooses among the moves of the first phase
selectBossSkill_firstPhaseMoves(w, r) ==
  LET skills == Phases[1].moveset
      u == FirstIndex({i \in 1 .. Len(skills) : IsUltimate(skills[i])})
      d == FirstIndex({i \in 1 .. Len(skills) : IsDamageMove(skills[i])})
      attack == w.enemy.baseAttack
                  * getStatMultiplier(Stage(w, "E", "ATTACK"))
      defense == BaseDefense(w, "P")
                  * getStatMultiplier(Stage(w, "P", "DEFENSE"))
      typeMultiplier ==
        IF skills[u].type # NONE
        THEN calculateTypeMultiplier(skills[u].type, TypesOf(w, "P")) ELSE 4
      estimatedDamage ==
        calculateDamage(attack, defense,
                        IF skills[u].power # 0 THEN skills[u].power ELSE 100,
                        typeMultiplier * 2, FALSE, r.est)
      st == StatusScan(w, skills, 1, r)
      withUlt == u # 0 /\ r.ult * 2 * MaxHP(w, "P")
                            < 100 * (MaxHP(w, "P") - HP(w, "P"))
      availableMoves ==
        (IF d # 0 THEN <<skills[d]>> ELSE << >>)
          \o (IF withUlt THEN <<skills[u], skills[u]>> ELSE << >>)
  IN  IF u # 0 /\ HP(w, "P") * 10 <= 4 * MaxHP(w, "P")
         /\ estimatedDamage * 10 >= HP(w, "P") * 8
      THEN skills[u]
      ELSE IF st # 0 THEN skills[st]
      ELSE IF w.enemy.currentHP * 10 <= 3 * w.enemy.maxHP /\ u # 0
      THEN skills[u]
      ELSE IF Len(availableMoves) > 0
      THEN availableMoves[((r.pick * Len(availableMoves)) \div 100) + 1]
      ELSE skills[((r.fallback * Len(skills)) \div 100) + 1]

\* variant: the status moves come before the lethal finish
selectBossSkill_statusFirst(w, r) ==
  LET skills == w.enemy.skills
      u == FirstIndex({i \in 1 .. Len(skills) : IsUltimate(skills[i])})
      d == FirstIndex({i \in 1 .. Len(skills) : IsDamageMove(skills[i])})
      attack == w.enemy.baseAttack
                  * getStatMultiplier(Stage(w, "E", "ATTACK"))
      defense == BaseDefense(w, "P")
                  * getStatMultiplier(Stage(w, "P", "DEFENSE"))
      typeMultiplier ==
        IF skills[u].type # NONE
        THEN calculateTypeMultiplier(skills[u].type, TypesOf(w, "P")) ELSE 4
      estimatedDamage ==
        calculateDamage(attack, defense,
                        IF skills[u].power # 0 THEN skills[u].power ELSE 100,
                        typeMultiplier * 2, FALSE, r.est)
      st == StatusScan(w, skills, 1, r)
      withUlt == u # 0 /\ r.ult * 2 * MaxHP(w, "P")
                            < 100 * (MaxHP(w, "P") - HP(w, "P"))
      availableMoves ==
        (IF d # 0 THEN <<skills[d]>> ELSE << >>)
          \o (IF withUlt THEN <<skills[u], skills[u]>> ELSE << >>)
  IN  IF st # 0 THEN skills[st]
      ELSE IF u # 0 /\ HP(w, "P") * 10 <= 4 * MaxHP(w, "P")
         /\ estimatedDamage * 10 >= HP(w, "P") * 8
      THEN skills[u]
      ELSE IF w.enemy.currentHP * 10 <= 3 * w.enemy.maxHP /\ u # 0
      THEN skills[u]
      ELSE IF Len(availableMoves) > 0
      THEN availableMoves[((r.pick * Len(availableMoves)) \div 100) + 1]
      ELSE skills[((r.fallback * Len(skills)) \div 100) + 1]

\* variant: desperation comes before the status moves
selectBossSkill_desperateFirst(w, r) ==
  LET skills == w.enemy.skills
      u == FirstIndex({i \in 1 .. Len(skills) : IsUltimate(skills[i])})
      d == FirstIndex({i \in 1 .. Len(skills) : IsDamageMove(skills[i])})
      attack == w.enemy.baseAttack
                  * getStatMultiplier(Stage(w, "E", "ATTACK"))
      defense == BaseDefense(w, "P")
                  * getStatMultiplier(Stage(w, "P", "DEFENSE"))
      typeMultiplier ==
        IF skills[u].type # NONE
        THEN calculateTypeMultiplier(skills[u].type, TypesOf(w, "P")) ELSE 4
      estimatedDamage ==
        calculateDamage(attack, defense,
                        IF skills[u].power # 0 THEN skills[u].power ELSE 100,
                        typeMultiplier * 2, FALSE, r.est)
      st == StatusScan(w, skills, 1, r)
      withUlt == u # 0 /\ r.ult * 2 * MaxHP(w, "P")
                            < 100 * (MaxHP(w, "P") - HP(w, "P"))
      availableMoves ==
        (IF d # 0 THEN <<skills[d]>> ELSE << >>)
          \o (IF withUlt THEN <<skills[u], skills[u]>> ELSE << >>)
  IN  IF u # 0 /\ HP(w, "P") * 10 <= 4 * MaxHP(w, "P")
         /\ estimatedDamage * 10 >= HP(w, "P") * 8
      THEN skills[u]
      ELSE IF w.enemy.currentHP * 10 <= 3 * w.enemy.maxHP /\ u # 0
      THEN skills[u]
      ELSE IF st # 0 THEN skills[st]
      ELSE IF Len(availableMoves) > 0
      THEN availableMoves[((r.pick * Len(availableMoves)) \div 100) + 1]
      ELSE skills[((r.fallback * Len(skills)) \div 100) + 1]

\* r = [est, s, ult, pick, fallback]
selectBossSkill(w, r) ==
  LET skills == w.enemy.skills
      u == FirstIndex({i \in 1 .. Len(skills) : IsUltimate(skills[i])})
      d == FirstIndex({i \in 1 .. Len(skills) : IsDamageMove(skills[i])})
      attack == w.enemy.baseAttack
                  * getStatMultiplier(Stage(w, "E", "ATTACK"))
      defense == BaseDefense(w, "P")
                  * getStatMultiplier(Stage(w, "P", "DEFENSE"))
      typeMultiplier ==
        IF skills[u].type # NONE
        THEN calculateTypeMultiplier(skills[u].type, TypesOf(w, "P")) ELSE 4
      estimatedDamage ==
        calculateDamage(attack, defense,
                        IF skills[u].power # 0 THEN skills[u].power ELSE 100,
                        typeMultiplier * 2, FALSE, r.est)
      st == StatusScan(w, skills, 1, r)
      withUlt == u # 0 /\ r.ult * 2 * MaxHP(w, "P")
                            < 100 * (MaxHP(w, "P") - HP(w, "P"))
      availableMoves ==
        (IF d # 0 THEN <<skills[d]>> ELSE << >>)
          \o (IF withUlt THEN <<skills[u], skills[u]>> ELSE << >>)
  IN  IF u # 0 /\ HP(w, "P") * 10 <= 4 * MaxHP(w, "P")
         /\ estimatedDamage * 10 >= HP(w, "P") * 8
      THEN skills[u]
      ELSE IF st # 0 THEN skills[st]
      ELSE IF w.enemy.currentHP * 10 <= 3 * w.enemy.maxHP /\ u # 0
      THEN skills[u]
      ELSE IF Len(availableMoves) > 0
      THEN availableMoves[((r.pick * Len(availableMoves)) \div 100) + 1]
      ELSE skills[((r.fallback * Len(skills)) \div 100) + 1]

AIRolls ==
  [est : Rolls, s : [1 .. 3 -> Rolls], ult : Rolls, pick : IndexRolls,
   fallback : IndexRolls]

\* every skill selectBossSkill can return in w
BossSkillChoices(w) == {selectBossSkill(w, r) : r \in AIRolls}

\* ------------------------------------------------------------- end of turn
\* variant: the tick reads the DEFENSE stage with its sign reversed
DoTDamage_stageReversed(w, side, percent) ==
  (MaxHP(w, side) * percent * 100)
    \div (5000 + BaseDefense(w, side)
                   * getStatMultiplier(0 - Stage(w, side, "DEFENSE")))

\* one damage-over-time tick of percent % of max HP, reduced by defense
DoTDamage(w, side, percent) ==
  (MaxHP(w, side) * percent * 100)
    \div (5000 + BaseDefense(w, side)
                   * getStatMultiplier(Stage(w, side, "DEFENSE")))

Dehydrated(w, side) ==
  IF Includes(StatusOf(w, side), "DEHYDRATED")
  THEN SetHP(w, side,
             Max(0, HP(w, side) - DoTDamage(w, side, DEHYDRATED_DAMAGE_PERCENT)))
  ELSE w

Burned(w, side) ==
  IF Includes(StatusOf(w, side), "BURNED")
  THEN LET w1 == SetHP(w, side,
                       Max(0, HP(w, side)
                                - DoTDamage(w, side, BURNED_DAMAGE_PERCENT)))
       IN  IF Stage(w1, side, "ATTACK") >= 0
           THEN SetStage(w1, side, "ATTACK",
                         Max(-6, Stage(w1, side, "ATTACK") - 1))
           ELSE w1
  ELSE w

\* variant: the hazard does not look at the purification counter
Hazard_ignoresPurification(w) ==
  IF w.hazard # NoHazard
  THEN SetHP(w, "P",
             Max(0, HP(w, "P")
                      - (MaxHP(w, "P") * w.hazard.damagePercent) \div 100))
  ELSE w

Hazard(w) ==
  IF w.hazard # NoHazard /\ w.purified <= 0
  THEN SetHP(w, "P",
             Max(0, HP(w, "P")
                      - (MaxHP(w, "P") * w.hazard.damagePercent) \div 100))
  ELSE w

Purification(w) ==
  IF w.purified > 0 THEN [w EXCEPT !.purified = w.purified - 1] ELSE w

\* variant: the gain is made in every phase
CorneredPredator_everyPhase(w, phase) ==
  SetStage(w, "E", "ATTACK", Min(6, Stage(w, "E", "ATTACK") + 1))

\* variant: the gain is not capped
CorneredPredator_uncapped(w, phase) ==
  IF phase = 3
     /\ \E i \in 1 .. Len(Phases) :
          Phases[i].phaseNumber = 3
          /\ Phases[i].passiveAbility.attackGainPerTurn # 0
  THEN SetStage(w, "E", "ATTACK", Stage(w, "E", "ATTACK") + 1)
  ELSE w

\* Cornered Predator: the opponent's ATTACK rises a stage at each end of turn
CorneredPredator(w, phase) ==
  IF phase = 3
     /\ \E i \in 1 .. Len(Phases) :
          Phases[i].phaseNumber = 3
          /\ Phases[i].passiveAbility.attackGainPerTurn # 0
  THEN SetStage(w, "E", "ATTACK", Min(6, Stage(w, "E", "ATTACK") + 1))
  ELSE w

RECURSIVE RemoveFirst(_, _)
RemoveFirst(seq, x) ==
  IF seq = << >> THEN << >>
  ELSE IF Head(seq) = x THEN Tail(seq)
  ELSE <<Head(seq)>> \o RemoveFirst(Tail(seq), x)

ClearTrapped(w) == SetStatus(w, "P", RemoveFirst(StatusOf(w, "P"), "TRAPPED"))

processEndOfTurn(w, phase) ==
  ClearTrapped(
    CorneredPredator(
      Purification(
        Hazard(
          Burned(Dehydrated(Burned(Dehydrated(w, "P"), "P"), "E"), "E"))),
      phase))

\* ------------------------------------------------------------------ phases
PhaseData(phaseNumber) ==
  Phases[CHOOSE i \in 1 .. Len(Phases) : Phases[i].phaseNumber = phaseNumber]

\* variant: the moveset of the first phase is kept
initializeBossFromPhase_staleMoveset(phaseNumber) ==
  LET phaseData == PhaseData(phaseNumber) IN
  [currentHP |-> phaseData.maxHP,
   maxHP |-> phaseData.maxHP,
   baseAttack |-> phaseData.attack,
   baseDefense |-> phaseData.defense,
   baseSpeed |-> phaseData.speed,
   types |-> phaseData.types,
   skills |-> PhaseData(1).moveset,
   statusEffects |-> << >>,
   statModifiers |-> ZeroStages,
   passiveAbility |-> phaseData.passiveAbility]

\* the opponent after initializeBossFromPhase(phaseNumber)
initializeBossFromPhase(phaseNumber) ==
  LET phaseData == PhaseData(phaseNumber) IN
  [currentHP |-> phaseData.maxHP,
   maxHP |-> phaseData.maxHP,
   baseAttack |-> phaseData.attack,
   baseDefense |-> phaseData.defense,
   baseSpeed |-> phaseData.speed,
   types |-> phaseData.types,
   skills |-> phaseData.moveset,
   statusEffects |-> << >>,
   statModifiers |-> ZeroStages,
   passiveAbility |-> phaseData.passiveAbility]

\* -------------------------------------------------------------------- Init
\* variant: the filter's comparison inverted
AlivePets_inverted(party) == {i \in DOMAIN party : party[i].currentHP <= 0}

\* alivePets: the pets that pass the filter currentHP > 0
AlivePets(party) == {i \in DOMAIN party : party[i].currentHP > 0}

\* create(): initializeCombatants, then the intro timers are pending
InitFresh ==
  /\ battleState = "INTRO"
  /\ playerParty = [i \in PartyIdx |-> NewPet(i)]
  /\ activePlayerIndex \in PartyIdx
  /\ currentPhase = 1
  /\ enemyCombatant = initializeBossFromPhase(1)
  /\ menu = "none"
  /\ pc = "intro"

\* a battle picked up at the start of a later player turn. The active pet is
\* unhurt or weakened, a benched pet unhurt or fainted, the opponent unhurt or
\* weakened, in one of three situations: the active pet is about to faint,
\* the opponent is about to fall, or nobody is hurt yet (then, in phase 1,
\* the active pet may carry the GREASED of an earlier Grease Slam)
InitMidBattle ==
  /\ battleState = "PLAYER_TURN"
  /\ activePlayerIndex \in PartyIdx
  /\ currentPhase \in 1 .. Len(Phases)
  /\ \E hs \in [PartyIdx -> {"fainted", "weak", "unhurt"}],
        foe \in {"weak", "unhurt"},
        greased \in BOOLEAN :
       /\ hs[activePlayerIndex] # "fainted"
       /\ \A i \in PartyIdx \ {activePlayerIndex} : hs[i] # "weak"
       /\ \/ hs[activePlayerIndex] = "weak" /\ foe = "unhurt" /\ ~greased
          \/ /\ foe = "weak" /\ ~greased
             /\ \A i \in PartyIdx \ {activePlayerIndex} : hs[i] = "unhurt"
             \* the boiling swamp of phase 2 has hurt the active pet by then
             /\ currentPhase = 1 \/ hs[activePlayerIndex] = "weak"
          \/ /\ foe = "unhurt" /\ \A i \in PartyIdx : hs[i] = "unhurt"
             /\ currentPhase <= 2
             /\ greased => currentPhase = 1
       /\ playerParty =
            [i \in PartyIdx |->
               LET pet == [NewPet(i) EXCEPT !.currentHP =
                             CASE hs[i] = "fainted" -> 0
                               [] hs[i] = "weak" -> LowHP
                               [] hs[i] = "unhurt" -> BATTLE_PETS[i].maxHP]
               IN IF greased /\ i = activePlayerIndex
                  THEN [pet EXCEPT
                          !.statusEffects = <<"GREASED">>,
                          !.statModifiers =
                            [ZeroStages EXCEPT !["SPEED"] = GREASED_SPEED_STAGE]]
                  ELSE pet]
       /\ enemyCombatant =
            [initializeBossFromPhase(currentPhase) EXCEPT !.currentHP =
               IF foe = "weak" THEN LowHP ELSE PhaseData(currentPhase).maxHP]
  /\ menu = "action"
  /\ pc = "idle"

\* a battle picked up in phase 2 at the start of a player turn, after a
\* Toxic Heatwave: the active pet is BURNED, the first burn tick has lowered
\* its ATTACK, it has half its HP left, and the opponent is LowHP above the
\* 30% of its max HP below which selectBossSkill turns to the ultimate
InitBurned ==
  /\ battleState = "PLAYER_TURN"
  /\ activePlayerIndex \in PartyIdx
  /\ currentPhase = 2
  /\ playerParty =
       [i \in PartyIdx |->
          IF i = activePlayerIndex
          THEN [NewPet(i) EXCEPT
                  !.currentHP = BATTLE_PETS[i].maxHP \div 2,
                  !.statusEffects = <<"BURNED">>,
                  !.statModifiers = [ZeroStages EXCEPT !["ATTACK"] = -1]]
          ELSE NewPet(i)]
  /\ enemyCombatant =
       [initializeBossFromPhase(2) EXCEPT !.currentHP =
          (3 * PhaseData(2).maxHP) \div 10 + LowHP]
  /\ menu = "action"
  /\ pc = "idle"

\* a battle picked up in phase 1 at the start of a player turn, after a
\* Grease Slam and a Salt Spray on the active pet and a Citrus Bite on the
\* opponent: the pet is GREASED and DEHYDRATED, the opponent SOUR, and both
\* have half their HP left
InitGreased ==
  /\ battleState = "PLAYER_TURN"
  /\ activePlayerIndex \in PartyIdx
  /\ currentPhase = 1
  /\ playerParty =
       [i \in PartyIdx |->
          IF i = activePlayerIndex
          THEN [NewPet(i) EXCEPT
                  !.currentHP = BATTLE_PETS[i].maxHP \div 2,
                  !.statusEffects = <<"GREASED", "DEHYDRATED">>,
                  !.statModifiers =
                    [ZeroStages EXCEPT !["SPEED"] = GREASED_SPEED_STAGE]]
          ELSE NewPet(i)]
  /\ enemyCombatant =
       [initializeBossFromPhase(1) EXCEPT
          !.currentHP = PhaseData(1).maxHP \div 2,
          !.statusEffects = <<"SOUR">>,
          !.statModifiers =
            [ZeroStages EXCEPT !["ACCURACY"] = SOUR_ACCURACY_STAGE]]
  /\ menu = "action"
  /\ pc = "idle"

\* a battle picked up late in phase 3 at the start of a player turn: every
\* pet and the opponent have half their HP left, Tart-le has used Crust
\* Hunker until its DEFENSE stood at +5, and Cornered Predator has raised
\* the opponent's ATTACK to +6
InitLate ==
  /\ battleState = "PLAYER_TURN"
  /\ activePlayerIndex \in PartyIdx
  /\ currentPhase = 3
  /\ playerParty =
       [i \in PartyIdx |->
          [NewPet(i) EXCEPT
             !.currentHP = BATTLE_PETS[i].maxHP \div 2,
             !.statModifiers =
               [ZeroStages EXCEPT !["DEFENSE"] =
                  IF CrustHunker \in {BATTLE_PETS[i].skills[k] :
                                        k \in 1 .. Len(BATTLE_PETS[i].skills)}
                  THEN 5 ELSE 0]]]
  /\ enemyCombatant =
       [initializeBossFromPhase(3) EXCEPT
          !.currentHP = PhaseData(3).maxHP \div 2,
          !.statModifiers = [ZeroStages EXCEPT !["ATTACK"] = 6]]
  /\ menu = "action"
  /\ pc = "idle"

\* the fields no starting position varies
InitLocals ==
  /\ playerCombatant = activePlayerIndex
  /\ environmentalHazard = PhaseData(currentPhase).environmentalHazard
  /\ hazardPurifiedTurns = 0
  /\ swapSlots = {}
  /\ playerSkill = BaseSkill
  /\ enemySkill = BaseSkill
  /\ firstMover = "P"
  /\ swapTarget = 0
  /\ exitPending = FALSE
  /\ exited = FALSE
  /\ turns = 0
  /\ log = << >>
  /\ notice = NONE

Init ==
  /\ (InitFresh \/ InitMidBattle \/ InitBurned \/ InitGreased \/ InitLate)
  /\ InitLocals

\* ----------------------------------------------------------------- actions
Commit(w) ==
  /\ playerParty' = w.party
  /\ enemyCombatant' = w.enemy
  /\ hazardPurifiedTurns' = w.purified

FlowLocals == <<playerSkill, enemySkill, firstMover, swapTarget, log>>

\* the resolution in flight returns: its locals are gone; the log keeps
\* only that a phase started
Return(entry) ==
  /\ pc' = "idle"
  /\ playerSkill' = BaseSkill
  /\ enemySkill' = BaseSkill
  /\ firstMover' = "P"
  /\ swapTarget' = 0
  /\ log' = entry

\* startPlayerTurn, the last statement of every resolution
startPlayerTurn ==
  /\ battleState' = "PLAYER_TURN"
  /\ menu' = "action"

\* the last delayedCall of startBattleIntro
IntroDone ==
  /\ ~exited /\ pc = "intro"
  /\ startPlayerTurn
  /\ Return(<< >>)
  /\ UNCHANGED <<playerParty, activePlayerIndex, playerCombatant,
                 enemyCombatant, currentPhase, environmentalHazard,
                 hazardPurifiedTurns, swapSlots, exitPending, exited, turns>>
  /\ UNCHANGED notice

\* Fight button of the action menu
onFightClicked ==
  /\ ~exited /\ menu = "action"
  /\ IF Includes(playerParty[playerCombatant].statusEffects, "TRAPPED")
     THEN menu' = menu /\ notice' = "is trapped!"
     ELSE menu' = "skill" /\ notice' = NONE
  /\ UNCHANGED <<battleState, playerParty, activePlayerIndex, playerCombatant,
                 enemyCombatant, currentPhase, environmentalHazard,
                 hazardPurifiedTurns, swapSlots, pc, playerSkill, enemySkill,
                 firstMover, swapTarget, exitPending, exited, turns, log>>

\* Back button of the skill menu, Back button of the swap menu (hideSwapMenu
\* destroys the slots)
showActionMenu ==
  /\ ~exited /\ menu \in {"skill", "swap"}
  /\ menu' = "action"
  /\ swapSlots' = {}
  /\ UNCHANGED <<battleState, playerParty, activePlayerIndex, playerCombatant,
                 enemyCombatant, currentPhase, environmentalHazard,
                 hazardPurifiedTurns, pc, playerSkill, enemySkill,
                 firstMover, swapTarget, exitPending, exited, turns, log>>
  /\ UNCHANGED notice

\* variant: the Swap button does not look at TRAPPED
onSwapClicked_unguarded ==
  /\ ~exited /\ menu = "action"
  /\ menu' = "swap"
  /\ swapSlots' = {i \in DOMAIN playerParty : i # activePlayerIndex
                                    /\ playerParty[i].currentHP # 0}
  /\ notice' = NONE
  /\ UNCHANGED <<battleState, playerParty, activePlayerIndex, playerCombatant,
                 enemyCombatant, currentPhase, environmentalHazard,
                 hazardPurifiedTurns, pc, playerSkill, enemySkill,
                 firstMover, swapTarget, exitPending, exited, turns, log>>

\* Swap button of the action menu; showSwapMenu makes a slot clickable when
\* it is neither active nor fainted
onSwapClicked ==
  /\ ~exited /\ menu = "action"
  /\ IF Includes(playerParty[playerCombatant].statusEffects, "TRAPPED")
     THEN /\ UNCHANGED <<menu, swapSlots>>
          /\ notice' = "is trapped and cannot swap!"
     ELSE /\ menu' = "swap"
          /\ swapSlots' = {i \in DOMAIN playerParty : i # activePlayerIndex
                                            /\ playerParty[i].currentHP # 0}
          /\ notice' = NONE
  /\ UNCHANGED <<battleState, playerParty, activePlayerIndex, playerCombatant,
                 enemyCombatant, currentPhase, environmentalHazard,
                 hazardPurifiedTurns, pc, playerSkill, enemySkill,
                 firstMover, swapTarget, exitPending, exited, turns, log>>

\* Flee button of the action menu
onFleeClicked ==
  /\ ~exited /\ menu = "action"
  /\ battleState' = "FLED"
  /\ exitPending' = TRUE
  /\ UNCHANGED <<playerParty, activePlayerIndex, playerCombatant,
                 enemyCombatant, currentPhase, environmentalHazard,
                 hazardPurifiedTurns, menu, swapSlots, pc, playerSkill,
                 enemySkill, firstMover, swapTarget, exited, turns, log>>
  /\ notice' = NONE

\* scene.start('DungeonMapScene') of onFleeClicked, onVictory, onDefeat: the
\* scene shuts down, which destroys its menus and the timers a resolution in
\* flight is waiting on
SceneExit ==
  /\ ~exited /\ exitPending
  /\ exited' = TRUE
  /\ exitPending' = FALSE
  /\ menu' = "none"
  /\ swapSlots' = {}
  /\ Return(<< >>)
  /\ UNCHANGED <<battleState, playerParty, activePlayerIndex, playerCombatant,
                 enemyCombatant, currentPhase, environmentalHazard,
                 hazardPurifiedTurns, turns>>
  /\ UNCHANGED notice

EffectiveSpeed(w, side) ==
  BaseSpeed(w, side) * getStatMultiplier(Stage(w, side, "SPEED"))

\* variant: a tie goes to the opponent
TurnOrder_strict(w) ==
  IF EffectiveSpeed(w, "P") > EffectiveSpeed(w, "E") THEN "P" ELSE "E"

\* the branch of executeTurn's speed comparison
TurnOrder(w) ==
  IF EffectiveSpeed(w, "P") >= EffectiveSpeed(w, "E") THEN "P" ELSE "E"

\* a skill card: onSkillSelected and executeTurn up to its first await
onSkillSelected ==
  /\ ~exited /\ menu = "skill" /\ turns < MaxTurns
  /\ \E k \in 1 .. Len(BATTLE_PETS[playerParty[playerCombatant].id].skills) :
       playerSkill' = BATTLE_PETS[playerParty[playerCombatant].id].skills[k]
  /\ enemySkill' \in BossSkillChoices(World)
  /\ menu' = "none"
  /\ battleState' = "EXECUTING_MOVE"
  /\ firstMover' = TurnOrder(World)
  /\ pc' = "first"
  /\ turns' = turns + 1
  /\ log' = << >>
  /\ UNCHANGED <<playerParty, activePlayerIndex, playerCombatant,
                 enemyCombatant, currentPhase, environmentalHazard,
                 hazardPurifiedTurns, swapSlots, swapTarget, exitPending,
                 exited>>
  /\ UNCHANGED notice

\* variant: the opponent's skill is chosen anew at the time of its move
SkillOf_reselected(side) ==
  IF side = "P" THEN playerSkill
  ELSE CHOOSE s \in BossSkillChoices(World) : TRUE

\* executeTurn's playerSkill and enemySkill, chosen before the first move
SkillOf(side) == IF side = "P" THEN playerSkill ELSE enemySkill

\* executeTurn reads neither skill nor the order after its last executeSkill
MovesDone ==
  /\ playerSkill' = BaseSkill
  /\ enemySkill' = BaseSkill
  /\ firstMover' = "P"

\* variant: the second move is not guarded
SecondActs_always(w) == TRUE

\* executeTurn: the test between the two executeSkill calls
SecondActs(w) == HP(w, Other(firstMover)) > 0

\* executeTurn: the first executeSkill, then the test on the other side's HP
FirstMove ==
  /\ ~exited /\ pc = "first"
  /\ \E w \in SkillOutcomes(World, firstMover, Other(firstMover),
                            SkillOf(firstMover)) :
       /\ Commit(w)
       /\ IF SecondActs(w)
          THEN /\ pc' = "second"
               /\ UNCHANGED <<playerSkill, enemySkill, firstMover>>
          ELSE /\ pc' = "check1"
               /\ MovesDone
  /\ log' = Append(log, firstMover)
  /\ UNCHANGED <<battleState, activePlayerIndex, playerCombatant, currentPhase,
                 environmentalHazard, menu, swapSlots, swapTarget, exitPending,
                 exited, turns>>
  /\ UNCHANGED notice

\* executeTurn: the second executeSkill
SecondMove ==
  /\ ~exited /\ pc = "second"
  /\ \E w \in SkillOutcomes(World, Other(firstMover), firstMover,
                            SkillOf(Other(firstMover))) :
       Commit(w)
  /\ pc' = "check1"
  /\ MovesDone
  /\ log' = Append(log, Other(firstMover))
  /\ UNCHANGED <<battleState, activePlayerIndex, playerCombatant, currentPhase,
                 environmentalHazard, menu, swapSlots, swapTarget, exitPending,
                 exited, turns>>
  /\ UNCHANGED notice

\* onVictory / onDefeat: menus hidden, the return to the map is scheduled
EndBattle(state) ==
  /\ battleState' = state
  /\ menu' = "none"
  /\ exitPending' = TRUE
  /\ Return(<< >>)

\* variant: the last phase is never entered
HasNextPhase_offByOne == currentPhase < Len(Phases) - 1

\* checkBattleEnd: phases remain after the current one
HasNextPhase == currentPhase < Len(Phases)

\* checkBattleEnd, and what its caller does with the result
checkBattleEnd ==
  /\ ~exited /\ pc \in {"check1", "check2"}
  /\ IF enemyCombatant.currentHP = 0
     THEN IF HasNextPhase
          THEN /\ pc' = "phase"
               /\ menu' = "none"
               /\ UNCHANGED <<battleState, exitPending, FlowLocals>>
          ELSE EndBattle("VICTORY")
     ELSE IF playerParty[playerCombatant].currentHP = 0
     THEN IF AlivePets(playerParty) # {}
          THEN /\ pc' = "faint"
               /\ UNCHANGED <<battleState, menu, exitPending, FlowLocals>>
          ELSE EndBattle("DEFEAT")
     ELSE IF pc = "check1"
     THEN /\ battleState' = "TURN_END"
          /\ pc' = "eot"
          /\ UNCHANGED <<menu, exitPending, FlowLocals>>
     ELSE /\ startPlayerTurn
          /\ Return(<< >>)
          /\ UNCHANGED exitPending
  /\ UNCHANGED <<playerParty, activePlayerIndex, playerCombatant,
                 enemyCombatant, currentPhase, environmentalHazard,
                 hazardPurifiedTurns, swapSlots, exited, turns>>
  /\ UNCHANGED notice

\* the body of processEndOfTurn
EndOfTurn ==
  /\ ~exited /\ pc = "eot"
  /\ Commit(processEndOfTurn(World, currentPhase))
  /\ pc' = "check2"
  /\ log' = Append(log, "EOT")
  /\ UNCHANGED <<battleState, activePlayerIndex, playerCombatant, currentPhase,
                 environmentalHazard, menu, swapSlots, playerSkill, enemySkill,
                 firstMover, swapTarget, exitPending, exited, turns>>
  /\ UNCHANGED notice

\* performSwap
performSwap(newIndex) ==
  /\ activePlayerIndex' = newIndex
  /\ playerCombatant' = newIndex

\* variant: the loop keeps the last pet with HP left, not the first
NextAlive_last(party) ==
  IF AlivePets(party) = {} THEN -1
  ELSE CHOOSE i \in AlivePets(party) : \A j \in AlivePets(party) : i >= j

\* the index triggerAutoSwap's loop stops at, -1 when it finds none
NextAlive(party) ==
  IF AlivePets(party) = {} THEN -1
  ELSE CHOOSE i \in AlivePets(party) : \A j \in AlivePets(party) : i <= j

\* triggerAutoSwap up to the end of performSwap
triggerAutoSwap ==
  /\ ~exited /\ pc = "faint"
  /\ IF NextAlive(playerParty) = -1
     THEN /\ EndBattle("DEFEAT")
          /\ UNCHANGED <<activePlayerIndex, playerCombatant>>
     ELSE /\ performSwap(NextAlive(playerParty))
          /\ pc' = "enemyMove"
          /\ log' = Append(log, "AUTOSWAP")
          /\ UNCHANGED <<battleState, menu, exitPending, playerSkill,
                         enemySkill, firstMover, swapTarget>>
  /\ UNCHANGED <<playerParty, enemyCombatant, currentPhase,
                 environmentalHazard, hazardPurifiedTurns, swapSlots, exited,
                 turns>>
  /\ UNCHANGED notice

\* Array.prototype.findIndex on pet.id === id: -1 when there is none
findIndex(party, id) ==
  LET hits == {i \in DOMAIN party : party[i].id = id} IN
  IF hits = {} THEN -1
  ELSE CHOOSE i \in hits : \A j \in hits : i <= j

\* the index onPetSwapSelected finds for the combatant of the clicked slot
SlotIndex(party, slot) == findIndex(party, party[slot].id)

\* a slot of the swap menu: onPetSwapSelected up to its first await
onPetSwapSelected ==
  /\ ~exited /\ menu = "swap" /\ turns < MaxTurns
  /\ \E slot \in swapSlots :
       LET newIndex == SlotIndex(playerParty, slot) IN
       IF newIndex = -1 \/ newIndex = activePlayerIndex
       THEN UNCHANGED <<swapTarget, menu, swapSlots, pc, turns, log>>
       ELSE /\ swapTarget' = newIndex
            /\ menu' = "none"
            /\ swapSlots' = {}
            /\ pc' = "swap"
            /\ turns' = turns + 1
            /\ log' = << >>
  /\ UNCHANGED <<battleState, playerParty, activePlayerIndex, playerCombatant,
                 enemyCombatant, currentPhase, environmentalHazard,
                 hazardPurifiedTurns, playerSkill, enemySkill,
                 firstMover, exitPending, exited>>
  /\ UNCHANGED notice

\* variant: the opponent's move after the swap is skipped
ManualSwap_noReply ==
  /\ ~exited /\ pc = "swap"
  /\ performSwap(swapTarget)
  /\ swapTarget' = 0
  /\ pc' = "check1"
  /\ log' = Append(log, "SWAP")
  /\ UNCHANGED <<battleState, playerParty, enemyCombatant, currentPhase,
                 environmentalHazard, hazardPurifiedTurns, menu, swapSlots,
                 playerSkill, enemySkill, firstMover, exitPending, exited,
                 turns>>
  /\ UNCHANGED notice

\* onPetSwapSelected: performSwap(newIndex)
ManualSwap ==
  /\ ~exited /\ pc = "swap"
  /\ performSwap(swapTarget)
  /\ swapTarget' = 0
  /\ pc' = "enemyMove"
  /\ log' = Append(log, "SWAP")
  /\ UNCHANGED <<battleState, playerParty, enemyCombatant, currentPhase,
                 environmentalHazard, hazardPurifiedTurns, menu, swapSlots,
                 playerSkill, enemySkill, firstMover, exitPending, exited,
                 turns>>
  /\ UNCHANGED notice

\* variant: the opponent never moves after a swap
EnemyStillStanding_never == FALSE

\* the test that guards the opponent's move after a swap
EnemyStillStanding == enemyCombatant.currentHP > 0

\* after a swap (manual or forced): the opponent attacks if it has HP left
EnemyMove ==
  /\ ~exited /\ pc = "enemyMove"
  /\ IF EnemyStillStanding
     THEN /\ \E skill \in BossSkillChoices(World) :
               \E w \in SkillOutcomes(World, "E", "P", skill) : Commit(w)
          /\ pc' = "check1"
          /\ log' = Append(log, "E")
          /\ UNCHANGED <<battleState, menu, playerSkill, enemySkill,
                         firstMover, swapTarget>>
     ELSE /\ startPlayerTurn
          /\ Return(<< >>)
          /\ UNCHANGED <<playerParty, enemyCombatant, hazardPurifiedTurns>>
  /\ UNCHANGED <<activePlayerIndex, playerCombatant, currentPhase,
                 environmentalHazard, swapSlots, exitPending, exited, turns>>
  /\ UNCHANGED notice

\* variant: the transition builds the party anew, as initializeCombatants does
triggerPhaseTransition_resetsParty ==
  /\ ~exited /\ pc = "phase"
  /\ currentPhase' = currentPhase + 1
  /\ enemyCombatant' = initializeBossFromPhase(currentPhase + 1)
  /\ environmentalHazard' = PhaseData(currentPhase + 1).environmentalHazard
  /\ hazardPurifiedTurns' = 0
  /\ playerParty' = [i \in PartyIdx |-> NewPet(i)]
  /\ startPlayerTurn
  /\ Return(<<"PHASE">>)
  /\ UNCHANGED <<activePlayerIndex, playerCombatant, swapSlots, exitPending,
                 exited, turns>>
  /\ UNCHANGED notice

\* variant: the purification counter survives the transition
triggerPhaseTransition_keepsPurification ==
  /\ ~exited /\ pc = "phase"
  /\ currentPhase' = currentPhase + 1
  /\ enemyCombatant' = initializeBossFromPhase(currentPhase + 1)
  /\ environmentalHazard' = PhaseData(currentPhase + 1).environmentalHazard
  /\ startPlayerTurn
  /\ Return(<<"PHASE">>)
  /\ UNCHANGED <<playerParty, activePlayerIndex, playerCombatant, swapSlots,
                 exitPending, exited, turns, hazardPurifiedTurns>>
  /\ UNCHANGED notice

\* triggerPhaseTransition after playPhaseTransition
triggerPhaseTransition ==
  /\ ~exited /\ pc = "phase"
  /\ currentPhase' = currentPhase + 1
  /\ enemyCombatant' = initializeBossFromPhase(currentPhase + 1)
  /\ environmentalHazard' = PhaseData(currentPhase + 1).environmentalHazard
  /\ hazardPurifiedTurns' = 0
  /\ startPlayerTurn
  /\ Return(<<"PHASE">>)
  /\ UNCHANGED <<playerParty, activePlayerIndex, playerCombatant, swapSlots,
                 exitPending, exited, turns>>
  /\ UNCHANGED notice

Next ==
  \/ IntroDone
  \/ onFightClicked
  \/ showActionMenu
  \/ onSwapClicked
  \/ onFleeClicked
  \/ SceneExit
  \/ onSkillSelected
  \/ FirstMove
  \/ SecondMove
  \/ checkBattleEnd
  \/ EndOfTurn
  \/ triggerAutoSwap
  \/ onPetSwapSelected
  \/ ManualSwap
  \/ EnemyMove
  \/ triggerPhaseTransition

Spec == Init /\ [][Next]_vars

\* ------------------------------------------------ the scene started again
\* the level node of the dungeon map starts BattleScene again: the scene
\* manager runs init and create on the scene object it already holds, so a
\* field keeps its value unless create assigns it. initializeCombatants
\* pushes three more pets onto playerParty and draws the active index over
\* the whole array
create ==
  /\ exited
  /\ Cardinality(DOMAIN playerParty) < Cardinality(PartyIdx) * MaxBattles
  /\ LET n == Cardinality(DOMAIN playerParty) IN
       /\ playerParty' =
            [i \in 0 .. n + Cardinality(PartyIdx) - 1 |->
               IF i < n THEN playerParty[i] ELSE NewPet(i - n)]
       /\ activePlayerIndex' \in 0 .. n + Cardinality(PartyIdx) - 1
  /\ playerCombatant' = activePlayerIndex'
  /\ currentPhase' = 1
  /\ enemyCombatant' = initializeBossFromPhase(1)
  /\ environmentalHazard' = PhaseData(1).environmentalHazard
  /\ hazardPurifiedTurns' = 0
  /\ battleState' = "INTRO"
  /\ menu' = "none"
  /\ pc' = "intro"
  /\ exited' = FALSE
  /\ notice' = NONE
  /\ UNCHANGED <<swapSlots, playerSkill, enemySkill, firstMover, swapTarget,
                 exitPending, turns, log>>

ReentryNext == Next \/ create

ReentrySpec == Init /\ [][ReentryNext]_vars

\* ------------------------------------------------------ the strikes alone
\* executeTurn after its first await, over every ACCURACY stage of the
\* opponent and every EVASION stage of the active pet that a statModifiers
\* map can hold, for each pet, each damaging skill of the opponent in
\* phases 1 and 2, and each skill of the pet
InitStrike ==
  /\ battleState = "EXECUTING_MOVE"
  /\ activePlayerIndex \in PartyIdx
  /\ playerCombatant = activePlayerIndex
  /\ currentPhase \in 1 .. 2
  /\ environmentalHazard = PhaseData(currentPhase).environmentalHazard
  /\ hazardPurifiedTurns = 0
  /\ \E accuracyStage \in -6 .. 6, evasionStage \in -6 .. 6 :
       /\ playerParty =
            [i \in PartyIdx |->
               IF i = activePlayerIndex
               THEN [NewPet(i) EXCEPT
                       !.statModifiers =
                         [ZeroStages EXCEPT !["EVASION"] = evasionStage]]
               ELSE NewPet(i)]
       /\ enemyCombatant =
            [initializeBossFromPhase(currentPhase) EXCEPT
               !.statModifiers =
                 [ZeroStages EXCEPT !["ACCURACY"] = accuracyStage]]
  /\ \E k \in 1 .. Len(BATTLE_PETS[activePlayerIndex].skills) :
       playerSkill = BATTLE_PETS[activePlayerIndex].skills[k]
  /\ \E k \in 1 .. Len(enemyCombatant.skills) :
       /\ enemyCombatant.skills[k].power # 0
       /\ enemySkill = enemyCombatant.skills[k]
  /\ firstMover = TurnOrder(World)
  /\ menu = "none"
  /\ swapSlots = {}
  /\ pc = "first"
  /\ swapTarget = 0
  /\ exitPending = FALSE
  /\ exited = FALSE
  /\ turns = 1
  /\ log = << >>
  /\ notice = NONE

StrikeNext == FirstMove \/ SecondMove

StrikeSpec == InitStrike /\ [][StrikeNext]_vars

\* ------------------------------------------------- the action menu alone
\* the action menu at the start of a player turn, over the statuses the
\* active pet's record can carry: onFightClicked and onSwapClicked read
\* TRAPPED of the active pet (no move of the Sodium Serpent applies it, so
\* the battle above never puts it there)
InitActionMenu ==
  /\ battleState = "PLAYER_TURN"
  /\ activePlayerIndex \in PartyIdx
  /\ currentPhase \in 1 .. Len(Phases)
  /\ \E hs \in [PartyIdx -> {"fainted", "unhurt"}],
        greased \in BOOLEAN, trapped \in BOOLEAN :
       /\ hs[activePlayerIndex] = "unhurt"
       /\ playerParty =
            [i \in PartyIdx |->
               IF i = activePlayerIndex
               THEN [NewPet(i) EXCEPT
                       !.statusEffects =
                         (IF greased THEN <<"GREASED">> ELSE << >>)
                           \o (IF trapped THEN <<"TRAPPED">> ELSE << >>),
                       !.statModifiers =
                         [ZeroStages EXCEPT !["SPEED"] =
                            IF greased THEN GREASED_SPEED_STAGE ELSE 0]]
               ELSE [NewPet(i) EXCEPT !.currentHP =
                       IF hs[i] = "fainted" THEN 0 ELSE BATTLE_PETS[i].maxHP]]
  /\ enemyCombatant = initializeBossFromPhase(currentPhase)
  /\ menu = "action"
  /\ pc = "idle"

MenuInit == InitActionMenu /\ InitLocals

\* the buttons of the menus, and the scene exit a Flee schedules
MenuNext ==
  \/ onFightClicked
  \/ onSwapClicked
  \/ onFleeClicked
  \/ showActionMenu
  \/ SceneExit

MenuSpec == MenuInit /\ [][MenuNext]_vars

\* ------------------------------------------- a burn over several turns
\* processEndOfTurn about to run in phase 2, in the turn in which a Toxic
\* Heatwave has left BURNED on the active pet, over every ATTACK stage that
\* the pet's statModifiers map can hold at that moment; the pet and the
\* opponent have half their HP left. turns counts the actions accepted from
\* here on
InitBurnTick ==
  /\ battleState = "TURN_END"
  /\ activePlayerIndex \in PartyIdx
  /\ playerCombatant = activePlayerIndex
  /\ currentPhase = 2
  /\ environmentalHazard = PhaseData(currentPhase).environmentalHazard
  /\ hazardPurifiedTurns = 0
  /\ \E attackStage \in -6 .. 6 :
       playerParty =
         [i \in PartyIdx |->
            IF i = activePlayerIndex
            THEN [NewPet(i) EXCEPT
                    !.currentHP = BATTLE_PETS[i].maxHP \div 2,
                    !.statusEffects = <<"BURNED">>,
                    !.statModifiers =
                      [ZeroStages EXCEPT !["ATTACK"] = attackStage]]
            ELSE NewPet(i)]
  /\ enemyCombatant =
       [initializeBossFromPhase(2) EXCEPT
          !.currentHP = PhaseData(2).maxHP \div 2]
  /\ menu = "none"
  /\ swapSlots = {}
  /\ pc = "eot"
  /\ playerSkill = BaseSkill
  /\ enemySkill = BaseSkill
  /\ firstMover = "P"
  /\ swapTarget = 0
  /\ exitPending = FALSE
  /\ exited = FALSE
  /\ turns = 0
  /\ log = <<TurnOrder(World), Other(TurnOrder(World))>>
  /\ notice = NONE

\* the player keeps fighting with the active pet: Fight, a skill, the two
\* moves and the end of the turn
FightNext ==
  \/ onFightClicked
  \/ onSkillSelected
  \/ FirstMove
  \/ SecondMove
  \/ checkBattleEnd
  \/ EndOfTurn

BurnSpec == InitBurnTick /\ [][FightNext]_vars

\* ------------------------------------------------ a purified hazard
\* a skill whose effect is purifyHazards with the given purifyDuration (0:
\* the effect names no duration) and nothing else; no pet of BATTLE_PETS has
\* such a skill, executeNonDamagingSkill handles it for any combatant
CitrusCleanse(purifyDuration) ==
  [BaseSkill EXCEPT !.name = "Citrus Cleanse", !.category = "UTILITY",
     !.purifyHazards = TRUE, !.purifyDuration = purifyDuration]

\* the purifyDuration values of the cleanses supplied
PurifyDurations == {0, 1, 2}

\* executeTurn after its first await in the first turn of phase 1 or 2,
\* nobody hurt yet, the player's skill a cleanse. turns counts the actions
\* accepted from here on
InitCleanse ==
  /\ battleState = "EXECUTING_MOVE"
  /\ activePlayerIndex \in PartyIdx
  /\ playerCombatant = activePlayerIndex
  /\ currentPhase \in 1 .. 2
  /\ environmentalHazard = PhaseData(currentPhase).environmentalHazard
  /\ hazardPurifiedTurns = 0
  /\ playerParty = [i \in PartyIdx |-> NewPet(i)]
  /\ enemyCombatant = initializeBossFromPhase(currentPhase)
  /\ \E d \in PurifyDurations : playerSkill = CitrusCleanse(d)
  /\ enemySkill \in BossSkillChoices(World)
  /\ firstMover = TurnOrder(World)
  /\ menu = "none"
  /\ swapSlots = {}
  /\ pc = "first"
  /\ swapTarget = 0
  /\ exitPending = FALSE
  /\ exited = FALSE
  /\ turns = 0
  /\ log = << >>
  /\ notice = NONE

\* a battle picked up at the start of a player turn of phase 1 or 2 with the
\* opponent down to LowHP; in phase 2 a cleanse of an earlier turn has one
\* or two turns left to run, and the one tick of the boiling swamp before
\* it has hurt the active pet
InitPurified ==
  /\ battleState = "PLAYER_TURN"
  /\ activePlayerIndex \in PartyIdx
  /\ playerCombatant = activePlayerIndex
  /\ currentPhase \in 1 .. 2
  /\ environmentalHazard = PhaseData(currentPhase).environmentalHazard
  /\ IF environmentalHazard = NoHazard
     THEN hazardPurifiedTurns = 0
     ELSE hazardPurifiedTurns \in 1 .. 2
  /\ playerParty =
       [i \in PartyIdx |->
          IF i = activePlayerIndex
          THEN [NewPet(i) EXCEPT !.currentHP =
                  BATTLE_PETS[i].maxHP
                    - (BATTLE_PETS[i].maxHP
                         * environmentalHazard.damagePercent) \div 100]
          ELSE NewPet(i)]
  /\ enemyCombatant =
       [initializeBossFromPhase(currentPhase) EXCEPT !.currentHP = LowHP]
  /\ playerSkill = BaseSkill
  /\ enemySkill = BaseSkill
  /\ firstMover = "P"
  /\ menu = "action"
  /\ swapSlots = {}
  /\ pc = "idle"
  /\ swapTarget = 0
  /\ exitPending = FALSE
  /\ exited = FALSE
  /\ turns = 0
  /\ log = << >>
  /\ notice = NONE

PurifyInit == InitCleanse \/ InitPurified

PurifyNext == FightNext \/ triggerPhaseTransition

PurifySpec == PurifyInit /\ [][PurifyNext]_vars

\* ------------------------------------------- the turn after a transition
\* checkBattleEnd has just found the opponent of phase 1 or 2 at 0 HP and
\* the transition is in flight: the active pet struck last, has half its HP
\* left and, in phase 1, carries the GREASED of an earlier Grease Slam.
\* turns counts the actions accepted from here on
InitFallen ==
  /\ battleState = "EXECUTING_MOVE"
  /\ activePlayerIndex \in PartyIdx
  /\ playerCombatant = activePlayerIndex
  /\ currentPhase \in 1 .. 2
  /\ environmentalHazard = PhaseData(currentPhase).environmentalHazard
  /\ hazardPurifiedTurns = 0
  /\ playerParty =
       [i \in PartyIdx |->
          IF i = activePlayerIndex
          THEN IF currentPhase = 1
               THEN [NewPet(i) EXCEPT
                       !.currentHP = BATTLE_PETS[i].maxHP \div 2,
                       !.statusEffects = <<"GREASED">>,
                       !.statModifiers =
                         [ZeroStages EXCEPT !["SPEED"] = GREASED_SPEED_STAGE]]
               ELSE [NewPet(i) EXCEPT
                       !.currentHP = BATTLE_PETS[i].maxHP \div 2]
          ELSE NewPet(i)]
  /\ enemyCombatant =
       [initializeBossFromPhase(currentPhase) EXCEPT !.currentHP = 0]
  /\ playerSkill = BaseSkill
  /\ enemySkill = BaseSkill
  /\ firstMover = "P"
  /\ menu = "none"
  /\ swapSlots = {}
  /\ pc = "phase"
  /\ swapTarget = 0
  /\ exitPending = FALSE
  /\ exited = FALSE
  /\ turns = 0
  /\ log = IF TurnOrder(World) = "P" THEN <<"P">> ELSE <<"E", "P">>
  /\ notice = NONE

TransitionInit == Init \/ InitFallen

\* the battle, also picked up with a transition in flight
TransitionSpec == TransitionInit /\ [][Next]_vars

\* ------------------------------------------------------ the boss AI alone
\* the HP of the active pet when the AI is called: the values around which
\* the AI's estimates for the three pets lie, the values around 40% of its
\* max HP, and its max HP
PetHPs(i) ==
  LET m == BATTLE_PETS[i].maxHP IN
  (1 .. 10) \cup {15, 18, 22, 27}
    \cup {(4 * m) \div 10 - 1, (4 * m) \div 10, (4 * m) \div 10 + 1, m}

\* the HP of the opponent when the AI is called: LowHP, the values around
\* 30% of its max HP, and its max HP
BossHPs(phase) ==
  LET m == PhaseData(phase).maxHP IN
  {LowHP, (3 * m) \div 10, (3 * m) \div 10 + 1, m}

\* the statuses the opponent's moves of the given phase apply
StatusesOf(phase) ==
  {PhaseData(phase).moveset[k].statusEffect : k \in 1 .. 3} \ {NONE}

\* the skill menu open at the start of a player turn, over the inputs of
\* selectBossSkill: the phase, the active pet, its HP, which of the statuses
\* of the opponent's moves it carries (with the stages they brought: SPEED
\* for GREASED, ATTACK for a BURNED that has ticked), the opponent's HP and,
\* in phase 3, the ATTACK stage Cornered Predator has built up
InitAI ==
  /\ battleState = "PLAYER_TURN"
  /\ activePlayerIndex \in PartyIdx
  /\ playerCombatant = activePlayerIndex
  /\ currentPhase \in 1 .. Len(Phases)
  /\ environmentalHazard = PhaseData(currentPhase).environmentalHazard
  /\ hazardPurifiedTurns = 0
  /\ \E hp \in PetHPs(activePlayerIndex),
        carried \in SUBSET StatusesOf(currentPhase) :
       playerParty =
         [i \in PartyIdx |->
            IF i = activePlayerIndex
            THEN [NewPet(i) EXCEPT
                    !.currentHP = hp,
                    !.statusEffects =
                      (IF "GREASED" \in carried THEN <<"GREASED">> ELSE << >>)
                        \o (IF "DEHYDRATED" \in carried
                            THEN <<"DEHYDRATED">> ELSE << >>)
                        \o (IF "BURNED" \in carried
                            THEN <<"BURNED">> ELSE << >>),
                    !.statModifiers =
                      [ZeroStages EXCEPT
                         !["SPEED"] = IF "GREASED" \in carried
                                      THEN GREASED_SPEED_STAGE ELSE 0,
                         !["ATTACK"] = IF "BURNED" \in carried
                                       THEN -1 ELSE 0]]
            ELSE NewPet(i)]
  /\ \E hp \in BossHPs(currentPhase),
        attackStage \in (IF currentPhase = 3 THEN {0, 6} ELSE {0}) :
       enemyCombatant =
         [initializeBossFromPhase(currentPhase) EXCEPT
            !.currentHP = hp,
            !.statModifiers = [ZeroStages EXCEPT !["ATTACK"] = attackStage]]
  /\ playerSkill = BaseSkill
  /\ enemySkill = BaseSkill
  /\ firstMover = "P"
  /\ menu = "skill"
  /\ swapSlots = {}
  /\ pc = "idle"
  /\ swapTarget = 0
  /\ exitPending = FALSE
  /\ exited = FALSE
  /\ turns = 0
  /\ log = << >>
  /\ notice = NONE

\* a skill card is clicked: executeTurn calls selectBossSkill
AINext == onSkillSelected

AISpec == InitAI /\ [][AINext]_vars

\* ------------------------------------------------- the type chart alone
\* the attack types: the keys of TYPE_CHART
NutritionalTypes == DOMAIN TYPE_CHART

\* the lists of 1 or 2 types a combatant's types field can hold
DefenderTypeLists ==
  {<<a>> : a \in NutritionalTypes}
    \cup {<<a, b>> : a \in NutritionalTypes, b \in NutritionalTypes}

\* a damaging move of the given type, with or without a bonus against a type
TypedStrike(type, bonusAgainstType) ==
  [BaseSkill EXCEPT !.name = "Typed Strike", !.category = "SPECIAL",
     !.type = type, !.power = 60, !.accuracy = 100,
     !.bonusAgainstType = bonusAgainstType]

\* executeTurn after its first await, the pet about to use a damaging move
\* of each attack type on a defender of each list of 1 or 2 types, the
\* opponent about to use each of its damaging moves of phase 1
InitTyped ==
  /\ battleState = "EXECUTING_MOVE"
  /\ activePlayerIndex \in PartyIdx
  /\ playerCombatant = activePlayerIndex
  /\ currentPhase = 1
  /\ environmentalHazard = PhaseData(currentPhase).environmentalHazard
  /\ hazardPurifiedTurns = 0
  /\ playerParty = [i \in PartyIdx |-> NewPet(i)]
  /\ \E types \in DefenderTypeLists :
       enemyCombatant =
         [initializeBossFromPhase(currentPhase) EXCEPT !.types = types]
  /\ \E type \in NutritionalTypes, bonusAgainstType \in {NONE, "PROCESSED"} :
       playerSkill = TypedStrike(type, bonusAgainstType)
  /\ \E k \in 1 .. Len(enemyCombatant.skills) :
       /\ enemyCombatant.skills[k].power # 0
       /\ enemySkill = enemyCombatant.skills[k]
  /\ firstMover = TurnOrder(World)
  /\ menu = "none"
  /\ swapSlots = {}
  /\ pc = "first"
  /\ swapTarget = 0
  /\ exitPending = FALSE
  /\ exited = FALSE
  /\ turns = 1
  /\ log = << >>
  /\ notice = NONE

TypedNext == FirstMove \/ SecondMove

TypeSpec == InitTyped /\ [][TypedNext]_vars

\* ----------------------------------------------------- the damage alone
\* executeTurn after its first await, over every ATTACK stage of the active
\* pet and every DEFENSE stage of the opponent that a statModifiers map can
\* hold, for each pet, each phase, each skill of the pet and each damaging
\* skill of the opponent
InitDamage ==
  /\ battleState = "EXECUTING_MOVE"
  /\ activePlayerIndex \in PartyIdx
  /\ playerCombatant = activePlayerIndex
  /\ currentPhase \in 1 .. Len(Phases)
  /\ environmentalHazard = PhaseData(currentPhase).environmentalHazard
  /\ hazardPurifiedTurns = 0
  /\ \E attackStage \in -6 .. 6, defenseStage \in -6 .. 6 :
       /\ playerParty =
            [i \in PartyIdx |->
               IF i = activePlayerIndex
               THEN [NewPet(i) EXCEPT
                       !.statModifiers =
                         [ZeroStages EXCEPT !["ATTACK"] = attackStage]]
               ELSE NewPet(i)]
       /\ enemyCombatant =
            [initializeBossFromPhase(currentPhase) EXCEPT
               !.statModifiers =
                 [ZeroStages EXCEPT !["DEFENSE"] = defenseStage]]
  /\ \E k \in 1 .. Len(BATTLE_PETS[activePlayerIndex].skills) :
       playerSkill = BATTLE_PETS[activePlayerIndex].skills[k]
  /\ \E k \in 1 .. Len(enemyCombatant.skills) :
       /\ enemyCombatant.skills[k].power # 0
       /\ enemySkill = enemyCombatant.skills[k]
  /\ firstMover = TurnOrder(World)
  /\ menu = "none"
  /\ swapSlots = {}
  /\ pc = "first"
  /\ swapTarget = 0
  /\ exitPending = FALSE
  /\ exited = FALSE
  /\ turns = 1
  /\ log = << >>
  /\ notice = NONE

DamageSpec == InitDamage /\ [][StrikeNext]_vars

\* ------------------------------------------- the status ticks alone
\* processEndOfTurn about to run, the active pet DEHYDRATED, BURNED or both,
\* over every DEFENSE stage that its statModifiers map can hold, for each
\* pet and phase, the pet unhurt or at half its HP and the opponent at half
\* its HP
InitDot ==
  /\ battleState = "TURN_END"
  /\ activePlayerIndex \in PartyIdx
  /\ playerCombatant = activePlayerIndex
  /\ currentPhase \in 1 .. Len(Phases)
  /\ environmentalHazard = PhaseData(currentPhase).environmentalHazard
  /\ hazardPurifiedTurns = 0
  /\ \E defenseStage \in -6 .. 6,
        statuses \in {<<"DEHYDRATED">>, <<"BURNED">>, <<"DEHYDRATED", "BURNED">>},
        hurt \in BOOLEAN :
       playerParty =
         [i \in PartyIdx |->
            IF i = activePlayerIndex
            THEN [NewPet(i) EXCEPT
                    !.currentHP = IF hurt THEN BATTLE_PETS[i].maxHP \div 2
                                  ELSE BATTLE_PETS[i].maxHP,
                    !.statusEffects = statuses,
                    !.statModifiers =
                      [ZeroStages EXCEPT !["DEFENSE"] = defenseStage]]
            ELSE NewPet(i)]
  /\ enemyCombatant =
       [initializeBossFromPhase(currentPhase) EXCEPT
          !.currentHP = PhaseData(currentPhase).maxHP \div 2]
  /\ menu = "none"
  /\ swapSlots = {}
  /\ pc = "eot"
  /\ playerSkill = BaseSkill
  /\ enemySkill = BaseSkill
  /\ firstMover = "P"
  /\ swapTarget = 0
  /\ exitPending = FALSE
  /\ exited = FALSE
  /\ turns = 0
  /\ log = <<TurnOrder(World), Other(TurnOrder(World))>>
  /\ notice = NONE

\* the end of the turn and the check that follows it
DotNext == EndOfTurn \/ checkBattleEnd

DotSpec == InitDot /\ [][DotNext]_vars

\* ------------------------------------------- a weakened pet on the bench
\* a battle picked up at the start of a later player turn: one pet was
\* brought down to LowHP and swapped out, the active pet and the third pet
\* are unhurt (the opponent's move after the swap missed), the opponent is
\* unhurt
InitBenched ==
  /\ battleState = "PLAYER_TURN"
  /\ activePlayerIndex \in PartyIdx
  /\ currentPhase \in 1 .. Len(Phases)
  /\ \E benched \in PartyIdx \ {activePlayerIndex} :
       playerParty =
         [i \in PartyIdx |->
            IF i = benched THEN [NewPet(i) EXCEPT !.currentHP = LowHP]
            ELSE NewPet(i)]
  /\ enemyCombatant = initializeBossFromPhase(currentPhase)
  /\ menu = "action"
  /\ pc = "idle"
  /\ InitLocals

BenchInit == Init \/ InitBenched

BenchSpec == BenchInit /\ [][Next]_vars

\* ------------------------------------------------------------------ claims

\* C1: once battleState is VICTORY, DEFEAT or FLED it never changes again, and
\* no combatant's HP, statuses or stages and no active index change afterwards
C1_TerminalIsFinal ==
  [][(battleState \in Terminal) =>
       (/\ battleState' = battleState
        /\ playerParty' = playerParty
        /\ enemyCombatant' = enemyCombatant
        /\ activePlayerIndex' = activePlayerIndex)]_vars

\* C2: DEFEAT is set only with every party member at 0 HP, and every
\* checkBattleEnd that runs with every party member at 0 HP sets DEFEAT
C2_DefeatIffAllFainted ==
  [][/\ battleState' = "DEFEAT" =>
          \A i \in PartyIdx : playerParty'[i].currentHP = 0
     /\ (/\ pc \in {"check1", "check2"} /\ ~exited'
         /\ \A i \in PartyIdx : playerParty[i].currentHP = 0)
        => battleState' = "DEFEAT"]_vars

C2_Witness ==
  /\ battleState = "DEFEAT" /\ ~exited
  /\ \A i \in PartyIdx : playerParty[i].currentHP = 0

\* C3: with the opponent at 0 HP in a phase that is not the last, battleState
\* is not terminal and the scene is still running, so that the transition
\* in flight can bring the battle back to PLAYER_TURN in the next phase
\* (once the scene has exited, no step is left to take)
C3_PhaseResumes ==
  (enemyCombatant.currentHP = 0 /\ currentPhase < Len(Phases)) =>
    (battleState \notin Terminal /\ ~exited)

\* C4: a step enters VICTORY only with the opponent at 0 HP in the last phase,
\* and a step changes the phase number only with the opponent at 0 HP, by 1
C4_VictoryAndPhaseOnlyAtZeroHP ==
  [][/\ (battleState' = "VICTORY" /\ battleState # "VICTORY") =>
          (enemyCombatant.currentHP = 0 /\ currentPhase = Len(Phases))
     /\ currentPhase' # currentPhase =>
          (enemyCombatant.currentHP = 0 /\ currentPhase' = currentPhase + 1)
    ]_vars

C4_Witness ==
  /\ battleState = "VICTORY"
  /\ enemyCombatant.currentHP = 0
  /\ currentPhase = Len(Phases)

\* C5: the step that completes a phase transition leaves the opponent with
\* the new phase's max HP as current HP, no status, every stage 0, and the
\* new phase's types, base stats, moveset and passive ability
C5_BossIsNewPhase ==
  [][currentPhase' # currentPhase =>
       LET d == PhaseData(currentPhase')
           e == enemyCombatant'
       IN /\ e.currentHP = d.maxHP /\ e.maxHP = d.maxHP
          /\ e.statusEffects = << >>
          /\ \A stat \in Stats : e.statModifiers[stat] = 0
          /\ e.types = d.types
          /\ e.baseAttack = d.attack
          /\ e.baseDefense = d.defense
          /\ e.baseSpeed = d.speed
          /\ e.skills = d.moveset
          /\ e.passiveAbility = d.passiveAbility]_vars

C5_Witness ==
  /\ battleState = "PLAYER_TURN" /\ log = <<"PHASE">>
  /\ currentPhase = 2
  /\ enemyCombatant.currentHP = PhaseData(2).maxHP

\* C6: from the check that starts a phase transition to the step that
\* completes it, the party (HP, max HP, statuses, stages of every member)
\* and the active index do not change
C6_TransitionKeepsParty ==
  [][(pc = "phase" \/ pc' = "phase" \/ currentPhase' # currentPhase) =>
       (/\ playerParty' = playerParty
        /\ activePlayerIndex' = activePlayerIndex
        /\ playerCombatant' = playerCombatant)]_vars

C6_Witness ==
  /\ battleState = "PLAYER_TURN" /\ log = <<"PHASE">>
  /\ currentPhase = 3
  /\ \E i \in PartyIdx :
       /\ playerParty[i].currentHP > 0
       /\ playerParty[i].currentHP < playerParty[i].maxHP

\* C7: when the active pet has fainted and some pet has HP left, the forced
\* swap makes active the lowest-indexed pet with HP > 0
C7_AutoSwapPicksFirstAlive ==
  [][(/\ pc = "faint" /\ ~exited'
      /\ \E i \in PartyIdx : playerParty[i].currentHP > 0) =>
       /\ playerParty[activePlayerIndex'].currentHP > 0
       /\ \A j \in PartyIdx :
            j < activePlayerIndex' => playerParty[j].currentHP = 0
       /\ playerCombatant' = activePlayerIndex'
       /\ battleState' # "DEFEAT"]_vars

C7_Witness ==
  /\ pc = "enemyMove" /\ log # << >> /\ log[Len(log)] = "AUTOSWAP"
  /\ activePlayerIndex = 2
  /\ playerParty[0].currentHP = 0 /\ playerParty[1].currentHP = 0

\* C8: after a forced swap with the opponent at HP > 0, the next step of the
\* resolution is one opponent move that can touch only the new active pet,
\* and when startPlayerTurn hands the battle back to the player every forced
\* swap since the player's action was followed by exactly one opponent move
C8_OneEnemyMoveAfterAutoSwap ==
  [][/\ (/\ pc = "enemyMove" /\ ~exited'
         /\ log # << >> /\ log[Len(log)] = "AUTOSWAP"
         /\ enemyCombatant.currentHP > 0) =>
          /\ log' = Append(log, "E")
          /\ \A i \in PartyIdx \ {activePlayerIndex} :
               playerParty'[i] = playerParty[i]
     /\ (/\ battleState' = "PLAYER_TURN" /\ pc' = "idle" /\ ~exited'
         /\ pc \notin {"idle", "intro", "phase"})
        => \A k \in 1 .. Len(log) :
             log[k] = "AUTOSWAP" =>
               /\ k < Len(log) /\ log[k + 1] = "E"
               /\ k + 2 <= Len(log) => log[k + 2] # "E"]_vars

C8_Witness ==
  /\ pc = "check2" /\ Len(log) >= 3
  /\ SubSeq(log, Len(log) - 2, Len(log)) = <<"AUTOSWAP", "E", "EOT">>
  /\ playerParty[playerCombatant].currentHP > 0
  /\ enemyCombatant.currentHP > 0

C10_SecondActsIffAlive ==
  [][/\ (pc = "first" /\ ~exited') =>
          LET secondHP == IF firstMover = "P"
                          THEN enemyCombatant'.currentHP
                          ELSE playerParty'[playerCombatant'].currentHP
          IN IF secondHP > 0
             THEN pc' = "second" /\ firstMover' = firstMover
             ELSE pc' = "check1" /\ Len(log') = 1
     /\ (pc = "second" /\ ~exited') =>
          /\ HP(World, Other(firstMover)) > 0
          /\ log' = Append(log, Other(firstMover))
          /\ log = <<firstMover>>]_vars

C10_Witness ==
  /\ pc = "check1" /\ log = <<"P">>
  /\ enemyCombatant.currentHP = 0

\* C11: the opponent's skill of a skill turn is chosen by the boss AI in the
\* step that starts the turn, from the state in which nobody has moved yet;
\* it is not chosen again before the opponent's move, which uses it, also
\* when the player moved first; after a swap the opponent's one move uses a
\* skill the AI chooses from the state at that move
C11_EnemySkillSelectedOnce ==
  [][LET EnemyApplied(skill) ==
           \E w \in SkillOutcomes(World, "E", "P", skill) :
             /\ playerParty' = w.party
             /\ enemyCombatant' = w.enemy
             /\ hazardPurifiedTurns' = w.purified
     IN
     /\ (pc' = "first" /\ pc # "first") =>
          /\ enemySkill' \in BossSkillChoices(World)
          /\ log' = << >>
          /\ playerParty' = playerParty /\ enemyCombatant' = enemyCombatant
     /\ enemySkill' # enemySkill =>
          (enemySkill' = BaseSkill \/ (pc' = "first" /\ pc # "first"))
     /\ (pc \in {"first", "second"} /\ ~exited'
         /\ log' = Append(log, "E")) => EnemyApplied(enemySkill)
     /\ (pc = "enemyMove" /\ ~exited' /\ log' = Append(log, "E")) =>
          \E skill \in BossSkillChoices(World) : EnemyApplied(skill)]_vars

C11_Witness ==
  /\ pc = "second" /\ log = <<"P">>
  /\ enemySkill \notin BossSkillChoices(World)

\* C12: a manual swap takes the player's turn: the swap is the first thing
\* the resolution does, no move of the player's side follows in that
\* resolution, and with the opponent at HP > 0 the next step is one opponent
\* move, which leaves every pet but the newly active one untouched; when the
\* battle is handed back to the player the swap was followed by exactly one
\* opponent move (a pet that faints from it is replaced by the forced swap)
C12_ManualSwapTakesTurn ==
  [][/\ (pc = "swap" /\ ~exited') =>
          /\ swapTarget # activePlayerIndex
          /\ activePlayerIndex' = swapTarget /\ playerCombatant' = swapTarget
          /\ log = << >> /\ log' = <<"SWAP">>
          /\ playerParty' = playerParty /\ enemyCombatant' = enemyCombatant
     /\ (/\ pc = "enemyMove" /\ ~exited' /\ log = <<"SWAP">>
         /\ enemyCombatant.currentHP > 0) =>
          /\ log' = <<"SWAP", "E">>
          /\ activePlayerIndex' = activePlayerIndex
          /\ \A i \in PartyIdx \ {activePlayerIndex} :
               playerParty'[i] = playerParty[i]
     /\ (log' # << >> /\ log'[1] = "SWAP") =>
          \A k \in 1 .. Len(log') : log'[k] # "P"
     /\ (/\ battleState' = "PLAYER_TURN" /\ pc' = "idle" /\ ~exited'
         /\ log # << >> /\ log[1] = "SWAP") =>
          /\ Len(log) >= 2 /\ log[2] = "E"
          /\ Len(log) >= 3 => log[3] # "E"]_vars

C12_Witness ==
  /\ pc = "check1" /\ log = <<"SWAP", "E">>
  /\ playerParty[activePlayerIndex].currentHP > 0
  /\ playerParty[activePlayerIndex].currentHP
       < playerParty[activePlayerIndex].maxHP

\* C13: while the active pet is TRAPPED, a click on Fight or Swap is answered
\* with a rejection and opens no menu: no skill or swap can be chosen, no
\* resolution starts and the opponent makes no move, and the active index,
\* the party, the opponent, the phase and the battle state stay as they are
\* (only Flee, which is not refused, changes the battle state)
C13_TrappedRejectsFightAndSwap ==
  [][(/\ Includes(playerParty[playerCombatant].statusEffects, "TRAPPED")
      /\ menu = "action" /\ ~exited) =>
       /\ menu' \notin {"skill", "swap"} /\ swapSlots' = {}
       /\ pc' = pc /\ turns' = turns /\ log' = log
       /\ activePlayerIndex' = activePlayerIndex
       /\ playerCombatant' = playerCombatant
       /\ playerParty' = playerParty
       /\ enemyCombatant' = enemyCombatant
       /\ currentPhase' = currentPhase
       /\ battleState' # battleState => battleState' = "FLED"
       /\ (notice' # NONE /\ notice' # notice) =>
            /\ battleState' = battleState /\ menu' = menu
            /\ exitPending' = exitPending
    ]_vars

C13_Witness ==
  /\ Includes(playerParty[playerCombatant].statusEffects, "TRAPPED")
  /\ notice = "is trapped and cannot swap!"
  /\ \E i \in PartyIdx \ {activePlayerIndex} : playerParty[i].currentHP > 0
  /\ menu = "action" /\ battleState = "PLAYER_TURN" /\ pc = "idle"

\* C14: the step of a manual swap that changes the active pet makes active a
\* pet with HP > 0, other than the one that was active, and a click on a
\* swap slot that is accepted hands on the index of such a pet
C14_ManualSwapNeverToFainted ==
  [][/\ (pc = "swap" /\ ~exited') =>
          /\ playerParty'[activePlayerIndex'].currentHP > 0
          /\ activePlayerIndex' # activePlayerIndex
     /\ (menu = "swap" /\ pc' = "swap") =>
          /\ swapTarget' # activePlayerIndex
          /\ playerParty[swapTarget'].currentHP > 0]_vars

\* C15: the active index is an index of the party, the party has at most
\* three members, and the active combatant is the member at the active index
C15_OneActiveOfAtMostThree ==
  /\ activePlayerIndex \in DOMAIN playerParty
  /\ playerCombatant = activePlayerIndex
  /\ Cardinality(DOMAIN playerParty) <= 3

\* C16: every stat stage of every party member and of the opponent lies in
\* -6 .. 6
C16_StagesWithinSix ==
  /\ \A i \in DOMAIN playerParty : \A stat \in Stats :
       playerParty[i].statModifiers[stat] \in -6 .. 6
  /\ \A stat \in Stats : enemyCombatant.statModifiers[stat] \in -6 .. 6

\* Crust Hunker used at DEFENSE +5 and Cornered Predator's gain at ATTACK +6
\* have both been cut off at +6
C16_Witness ==
  /\ pc = "check2" /\ Len(log) >= 2 /\ log[Len(log)] = "EOT"
  /\ \E k \in 1 .. Len(log) : log[k] = "P"
  /\ playerParty[activePlayerIndex].statModifiers["DEFENSE"] = 6
  /\ enemyCombatant.statModifiers["ATTACK"] = 6

\* C17: the current HP of every party member and of the opponent is at
\* least 0 and at most its max HP
C17_HPWithinBounds ==
  /\ \A i \in DOMAIN playerParty :
       /\ playerParty[i].currentHP >= 0
       /\ playerParty[i].currentHP <= playerParty[i].maxHP
  /\ enemyCombatant.currentHP >= 0
  /\ enemyCombatant.currentHP <= enemyCombatant.maxHP

\* the opponent, down to LowHP, has knocked out the active pet with Sodium
\* Overload and has been healed by the move's share of its max HP
C17_Witness ==
  /\ pc = "check1" /\ log # << >> /\ log[Len(log)] = "E"
  /\ playerParty[activePlayerIndex].currentHP = 0
  /\ currentPhase = 1
  /\ enemyCombatant.currentHP =
       LowHP + (enemyCombatant.maxHP * SodiumOverload.healOnKO) \div 100

\* C18: no combatant carries a status twice, and a step that finds GREASED
\* (SOUR) on a combatant leaves its SPEED (ACCURACY) stage as it is, also
\* when the step applies the status again (the opponent's statuses and
\* stages start anew with a phase)
C18_StatusAppliedOnce ==
  [][LET NoRepeat(seq) ==
           \A a, b \in 1 .. Len(seq) : seq[a] = seq[b] => a = b
         Kept(old, new) ==
           /\ NoRepeat(new.statusEffects)
           /\ Includes(old.statusEffects, "GREASED") =>
                new.statModifiers["SPEED"] = old.statModifiers["SPEED"]
           /\ Includes(old.statusEffects, "SOUR") =>
                new.statModifiers["ACCURACY"] = old.statModifiers["ACCURACY"]
     IN
     /\ \A i \in DOMAIN playerParty : Kept(playerParty[i], playerParty'[i])
     /\ currentPhase' = currentPhase =>
          Kept(enemyCombatant, enemyCombatant')]_vars

\* the opponent moved first with Grease Slam and struck a pet that was
\* GREASED already (ungreased, the pet would have been the faster one)
C18_Witness ==
  /\ pc = "second" /\ log = <<"E">>
  /\ BATTLE_PETS[playerParty[activePlayerIndex].id].speed
       > enemyCombatant.baseSpeed
  /\ enemySkill.statusEffect = "GREASED"
  /\ playerParty[activePlayerIndex].statusEffects = <<"GREASED", "DEHYDRATED">>
  /\ playerParty[activePlayerIndex].statModifiers["SPEED"] = GREASED_SPEED_STAGE
  /\ playerParty[activePlayerIndex].currentHP
       < playerParty[activePlayerIndex].maxHP \div 2

\* C19: wherever a move is about to be made with a damaging skill, every
\* draw on which the accuracy check fails, or on which the strike slides off
\* the defender's passive ability, leaves both combatants and the hazard
\* exactly as they were: no damage, no status, no heal
C19_MissChangesNothing ==
  LET Missed(attacker, skill, r) ==
        /\ ~skill.neverMiss
        /\ ~checkAccuracy(
              (IF skill.accuracy # 0 THEN skill.accuracy ELSE 100)
                * getTypeAccuracyModifier(skill.type,
                                          TypesOf(World, Other(attacker))),
              Stage(World, attacker, "ACCURACY"),
              Stage(World, Other(attacker), "EVASION"), r.acc)
      Evaded(attacker, skill, r) ==
        /\ attacker # "P"
        /\ PassiveOf(World, Other(attacker)).evadeChance # 0
        /\ skill.category = "PHYSICAL"
        /\ r.evade < PassiveOf(World, Other(attacker)).evadeChance
      Fails(attacker, skill) ==
        skill.power # 0 =>
          \A r \in SkillRolls(skill) :
            (Missed(attacker, skill, r) \/ Evaded(attacker, skill, r)) =>
              executeSkill(World, attacker, Other(attacker), skill, r) = World
  IN  /\ pc = "first" => Fails(firstMover, SkillOf(firstMover))
      /\ pc = "second" => Fails(Other(firstMover), SkillOf(Other(firstMover)))
      /\ pc = "enemyMove" =>
           \A skill \in BossSkillChoices(World) : Fails("E", skill)

\* the player moved first with a damaging skill that can miss, and the
\* opponent is as its phase created it
C19_Witness ==
  /\ pc = "second" /\ log = <<"P">>
  /\ playerSkill.power # 0 /\ ~playerSkill.neverMiss
  /\ enemyCombatant = initializeBossFromPhase(currentPhase)

\* C20: a move of the opponent with a damaging skill flagged neverMiss
\* lowers the HP of the active pet, whatever the opponent's ACCURACY stage,
\* the pet's EVASION stage and the pet's types, and when the skill's status
\* chance is 100 the pet carries the skill's status after the move
C20_NeverMissConnects ==
  [][(/\ \/ pc = "first" /\ firstMover = "E"
         \/ pc = "second" /\ firstMover = "P"
      /\ ~exited'
      /\ enemySkill.power # 0 /\ enemySkill.neverMiss) =>
       /\ playerParty'[playerCombatant].currentHP
            < playerParty[playerCombatant].currentHP
       /\ enemySkill.statusChance = 100 =>
            Includes(playerParty'[playerCombatant].statusEffects,
                     enemySkill.statusEffect)]_vars

\* Salt Spray from ACCURACY -6 against Lemon Shark (FIBER, which PROCESSED
\* has trouble hitting) at EVASION +6 has landed and left DEHYDRATED
C20_Witness ==
  /\ log # << >> /\ log[Len(log)] = "E"
  /\ currentPhase = 1
  /\ enemyCombatant.statModifiers["ACCURACY"] = -6
  /\ BATTLE_PETS[playerParty[activePlayerIndex].id].types = <<"FIBER">>
  /\ playerParty[activePlayerIndex].statModifiers["EVASION"] = 6
  /\ Includes(playerParty[activePlayerIndex].statusEffects, "DEHYDRATED")
  /\ playerParty[activePlayerIndex].currentHP
       < playerParty[activePlayerIndex].maxHP

\* C21: when a resolution hands the battle back to the player, no combatant
\* holds TRAPPED: neither the opponent nor any party member, whether the
\* resolution ended after the end-of-turn step, after a forced swap or with
\* a phase transition
C21_TrappedGoneByTurnEnd ==
  [][(/\ pc # "idle" /\ pc' = "idle" /\ ~exited'
      /\ battleState' = "PLAYER_TURN") =>
       /\ ~Includes(enemyCombatant'.statusEffects, "TRAPPED")
       /\ \A i \in DOMAIN playerParty' :
            ~Includes(playerParty'[i].statusEffects, "TRAPPED")]_vars

C23_HazardFollowsPhase ==
  [][/\ environmentalHazard' = PhaseData(currentPhase').environmentalHazard
     /\ currentPhase' # currentPhase => hazardPurifiedTurns' = 0]_vars

\* phase 3 has begun; the opponent of phase 2 fell while the cleanse of the
\* starting position still had turns left (every phase-3 state here descends
\* from that position, and the turn in which the opponent falls has no
\* end-of-turn step)
C23_Witness ==
  /\ currentPhase = 3 /\ log = <<"PHASE">> /\ battleState = "PLAYER_TURN"
  /\ environmentalHazard = NoHazard
  /\ hazardPurifiedTurns = 0
  /\ enemyCombatant.currentHP = PhaseData(3).maxHP

\* C24: a cleanse used by the active pet while a hazard is active sets the
\* purification counter to the cleanse's duration (3 when it names none);
\* an end-of-turn step that finds the counter above 0 takes nothing from the
\* active pet for the hazard and lowers the counter by 1, and one that finds
\* it at 0 takes floor(maxHP * damagePercent / 100) from the active pet;
\* the opponent's HP is never touched by the hazard, and the counter is
\* never below 0. So the hazard is silent for the N end-of-turn steps after
\* the cleanse and strikes on the step after those
C24_PurifiedHazardSilent ==
  [][/\ hazardPurifiedTurns' >= 0
     /\ (/\ \/ pc = "first" /\ firstMover = "P"
            \/ pc = "second" /\ firstMover = "E"
         /\ ~exited'
         /\ playerSkill.purifyHazards
         /\ environmentalHazard # NoHazard) =>
          hazardPurifiedTurns' =
            IF playerSkill.purifyDuration # 0
            THEN playerSkill.purifyDuration ELSE 3
     /\ (pc = "eot" /\ ~exited' /\ environmentalHazard # NoHazard) =>
          LET ticked == Burned(Dehydrated(Burned(Dehydrated(World, "P"), "P"),
                                          "E"), "E")
              hazardDamage ==
                (playerParty[playerCombatant].maxHP
                   * environmentalHazard.damagePercent) \div 100
          IN /\ IF hazardPurifiedTurns > 0
                THEN /\ playerParty'[playerCombatant].currentHP
                          = HP(ticked, "P")
                     /\ hazardPurifiedTurns' = hazardPurifiedTurns - 1
                ELSE /\ playerParty'[playerCombatant].currentHP
                          = Max(0, HP(ticked, "P") - hazardDamage)
                     /\ hazardDamage > 0
                     /\ hazardPurifiedTurns' = 0
             /\ enemyCombatant'.currentHP = HP(ticked, "E")]_vars

\* a cleanse of duration 1 was used on the first turn of phase 2 and the
\* opponent has missed twice: the first end-of-turn step took nothing, the
\* second has taken the boiling swamp's share of the pet's max HP
C24_Witness ==
  /\ pc = "check2" /\ turns = 1 /\ log # << >> /\ log[Len(log)] = "EOT"
  /\ currentPhase = 2 /\ hazardPurifiedTurns = 0
  /\ enemyCombatant.currentHP > LowHP
  /\ playerParty[playerCombatant].statusEffects = << >>
  /\ playerParty[playerCombatant].currentHP =
       playerParty[playerCombatant].maxHP
         - (playerParty[playerCombatant].maxHP
              * environmentalHazard.damagePercent) \div 100

\* C25: an end-of-turn step leaves the opponent's ATTACK stage one above
\* what the status ticks left, but not above +6, when the passive ability of
\* the opponent's phase declares attackGainPerTurn, and does not raise it
\* when the passive ability declares none; no other step of a phase raises
\* the opponent's ATTACK stage
C25_CorneredPredatorGain ==
  [][LET before == enemyCombatant.statModifiers["ATTACK"]
         after == enemyCombatant'.statModifiers["ATTACK"]
         ticked == Stage(Burned(Dehydrated(World, "E"), "E"), "E", "ATTACK")
     IN
     /\ (pc = "eot" /\ ~exited') =>
          IF enemyCombatant.passiveAbility.attackGainPerTurn # 0
          THEN after = Min(6, ticked + 1)
          ELSE after = ticked /\ after <= before
     /\ (pc # "eot" /\ currentPhase' = currentPhase) => after <= before]_vars

\* the first end-of-turn step of a turn in phase 3 has raised the
\* opponent's ATTACK from 0 to +1
C25_Witness ==
  /\ pc = "check2" /\ log # << >> /\ log[Len(log)] = "EOT"
  /\ currentPhase = 3
  /\ enemyCombatant.passiveAbility.attackGainPerTurn = 1
  /\ enemyCombatant.statModifiers["ATTACK"] = 1

\* C26: the opponent's moveset is that of the current phase; every skill the
\* boss AI can return in a step that calls it (a skill card, the
\* opponent's move after a swap) is a member of it; the skill chosen at the
\* start of a skill turn, which is the skill of the opponent's move in that
\* turn, belongs to the current phase's moveset and to no earlier phase's,
\* also in the turn after a phase transition
C26_MovesOfCurrentPhase ==
  [][LET Members(seq) == {seq[k] : k \in 1 .. Len(seq)}
         current == Members(PhaseData(currentPhase).moveset)
         earlier == UNION {Members(PhaseData(p).moveset) :
                            p \in 1 .. currentPhase - 1}
     IN
     /\ enemyCombatant.skills = PhaseData(currentPhase).moveset
     /\ ((pc' = "first" /\ pc # "first") \/ (pc = "enemyMove" /\ ~exited')) =>
          LET choices == BossSkillChoices(World) IN
          /\ choices \subseteq Members(enemyCombatant.skills)
          /\ choices \subseteq current \ earlier
     /\ (pc' = "first" /\ pc # "first") => enemySkill' \in current \ earlier
     /\ (pc \in {"first", "second"}) => enemySkill \in current \ earlier]_vars

\* phase 2 began in this run (only a pet that fought phase 1 is GREASED in
\* phase 2), and in the turn after the transition the opponent has moved
\* first with a skill of phase 2 and hurt the pet
C26_Witness ==
  /\ pc = "second" /\ log = <<"E">> /\ turns = 1
  /\ currentPhase = 2
  /\ Includes(playerParty[playerCombatant].statusEffects, "GREASED")
  /\ \E k \in 1 .. Len(PhaseData(2).moveset) :
       enemySkill = PhaseData(2).moveset[k]
  /\ playerParty[playerCombatant].currentHP
       < playerParty[playerCombatant].maxHP \div 2

\* C27: wherever the AI is called with an ULTIMATE move in the opponent's
\* moveset, the active pet at no more than 40% of its max HP, and a damage
\* estimate for that move (power 100 when the move has none, no critical
\* hit, the variance as drawn) of at least 80% of the pet's current HP, the
\* AI returns that move on every draw, whatever statuses the pet lacks and
\* whatever the opponent's HP; and when the estimate reaches the 80% on
\* every draw of the variance, the skill the turn starts with is that move
C27_LethalFinishFirst ==
  [][(pc' = "first" /\ pc # "first") =>
       LET skills == enemyCombatant.skills
           ults == {k \in 1 .. Len(skills) : skills[k].category = "ULTIMATE"}
           ult == skills[CHOOSE k \in ults : \A j \in ults : k <= j]
           pet == playerParty[playerCombatant]
           estimate(roll) ==
             calculateDamage(
               enemyCombatant.baseAttack
                 * getStatMultiplier(enemyCombatant.statModifiers["ATTACK"]),
               BATTLE_PETS[pet.id].defense
                 * getStatMultiplier(pet.statModifiers["DEFENSE"]),
               IF ult.power # 0 THEN ult.power ELSE 100,
               2 * calculateTypeMultiplier(ult.type, BATTLE_PETS[pet.id].types),
               FALSE, roll)
           Lethal(roll) ==
             /\ pet.currentHP * 10 <= 4 * pet.maxHP
             /\ estimate(roll) * 10 >= pet.currentHP * 8
       IN ults # {} =>
            /\ \A r \in AIRolls :
                 Lethal(r.est) => selectBossSkill(World, r) = ult
            /\ (\A roll \in Rolls : Lethal(roll)) => enemySkill' = ult]_vars

\* the turn starts with the ultimate against a pet at no more than 40% of
\* its max HP that lacks every status the opponent's moves apply, with the
\* opponent unhurt: only the lethal-finish rule returns the ultimate there
C27_Witness ==
  /\ pc = "first" /\ turns = 1
  /\ enemySkill.category = "ULTIMATE"
  /\ playerParty[playerCombatant].currentHP * 10
       <= 4 * playerParty[playerCombatant].maxHP
  /\ playerParty[playerCombatant].statusEffects = << >>
  /\ enemyCombatant.currentHP = enemyCombatant.maxHP

\* C28: when the lethal-finish rule does not return (no ULTIMATE move, the
\* pet above 40% of its max HP, or the estimate below 80% of its current
\* HP) and the opponent's moveset has a move applying, with statusChance of
\* at least 70, a status the active pet does not carry, the AI returns on
\* every draw a status-applying move whose status the pet does not carry,
\* and the turn starts with such a move; and with the opponent at no more
\* than 30% of its max HP and an ULTIMATE move in the moveset, the AI
\* returns the ultimate exactly on the draws where no status move was
\* chosen, and a status move the pet lacks on the others
C28_StatusBeforeDesperation ==
  [][(pc' = "first" /\ pc # "first") =>
       LET skills == enemyCombatant.skills
           ults == {k \in 1 .. Len(skills) : skills[k].category = "ULTIMATE"}
           ult == skills[CHOOSE k \in ults : \A j \in ults : k <= j]
           pet == playerParty[playerCombatant]
           estimate(roll) ==
             calculateDamage(
               enemyCombatant.baseAttack
                 * getStatMultiplier(enemyCombatant.statModifiers["ATTACK"]),
               BATTLE_PETS[pet.id].defense
                 * getStatMultiplier(pet.statModifiers["DEFENSE"]),
               IF ult.power # 0 THEN ult.power ELSE 100,
               2 * calculateTypeMultiplier(ult.type, BATTLE_PETS[pet.id].types),
               FALSE, roll)
           Lethal(roll) ==
             /\ ults # {}
             /\ pet.currentHP * 10 <= 4 * pet.maxHP
             /\ estimate(roll) * 10 >= pet.currentHP * 8
           lacking ==
             {k \in 1 .. Len(skills) :
                /\ skills[k].statusEffect # NONE /\ skills[k].statusChance # 0
                /\ \A n \in 1 .. Len(pet.statusEffects) :
                     pet.statusEffects[n] # skills[k].statusEffect}
           sure == {k \in lacking : skills[k].statusChance >= 70}
           chosen(r) == \E k \in lacking :
                          skills[k].statusChance >= 70 \/ r.s[k] < 70
           desperate == /\ ults # {}
                        /\ enemyCombatant.currentHP * 10
                             <= 3 * enemyCombatant.maxHP
       IN /\ \A r \in AIRolls :
               ~Lethal(r.est) =>
                 /\ sure # {} =>
                      \E k \in lacking : selectBossSkill(World, r) = skills[k]
                 /\ desperate =>
                      IF chosen(r)
                      THEN \E k \in lacking :
                             selectBossSkill(World, r) = skills[k]
                      ELSE selectBossSkill(World, r) = ult
          /\ (sure # {} /\ \A roll \in Rolls : ~Lethal(roll)) =>
               \E k \in lacking : enemySkill' = skills[k]]_vars

\* the turn starts with a status move against a pet that lacks its status,
\* with the opponent at no more than 30% of its max HP and an ULTIMATE move
\* in its moveset: the status moves came before the desperation rule
C28_Witness ==
  /\ pc = "first" /\ turns = 1
  /\ enemyCombatant.currentHP * 10 <= 3 * enemyCombatant.maxHP
  /\ \E k \in 1 .. Len(enemyCombatant.skills) :
       enemyCombatant.skills[k].category = "ULTIMATE"
  /\ enemySkill.statusEffect # NONE /\ enemySkill.statusChance >= 70
  /\ enemySkill.category # "ULTIMATE"
  /\ \A n \in 1 .. Len(playerParty[playerCombatant].statusEffects) :
       playerParty[playerCombatant].statusEffects[n] # enemySkill.statusEffect

C31_DamageMonotone ==
  (pc = "first" /\ playerSkill.name # NONE) =>
    LET pet == playerParty[playerCombatant]
        attack == BATTLE_PETS[pet.id].attack
                    * getStatMultiplier(pet.statModifiers["ATTACK"])
        defense == enemyCombatant.baseDefense
                     * getStatMultiplier(enemyCombatant.statModifiers["DEFENSE"])
        power == IF playerSkill.power # 0 THEN playerSkill.power ELSE 50
        attacks == {BATTLE_PETS[pet.id].attack * getStatMultiplier(s) :
                      s \in -6 .. 6} \cup {attack - 1, attack + 1}
        defenses == {enemyCombatant.baseDefense * getStatMultiplier(s) :
                       s \in -6 .. 6} \cup {defense - 1, defense + 1}
        powers == {power - 1, power + 1, 35, 40, 50, 60, 65, 70, 90, 120}
    IN \A typeMultiplier \in {1, 8, 12, 32}, isCritical \in BOOLEAN :
         LET damage(a, d, p) ==
               calculateDamage(a, d, p, typeMultiplier, isCritical, 100)
             here == damage(attack, defense, power)
             num == (6 * attack * power + 250 * defense) * typeMultiplier
                      * (IF isCritical THEN 3 ELSE 1)
             den == 125 * defense * 8 * (IF isCritical THEN 2 ELSE 1)
         IN /\ here \in Nat /\ here >= 1
            /\ typeMultiplier <= 8 =>
                 here = (IF num \div den >= 1 THEN num \div den ELSE 1)
            /\ \A a \in attacks :
                 /\ a >= attack => damage(a, defense, power) >= here
                 /\ a <= attack => damage(a, defense, power) <= here
            /\ \A p \in powers :
                 /\ p >= power => damage(attack, defense, p) >= here
                 /\ p <= power => damage(attack, defense, p) <= here
            /\ \A d \in defenses :
                 /\ d >= defense => damage(attack, d, power) <= here
                 /\ d <= defense => damage(attack, d, power) >= here

\* the pet has struck first with a damaging move at ATTACK stage +6 on an
\* opponent at DEFENSE stage -6, and the opponent has lost HP
C31_Witness ==
  /\ pc = "second" /\ firstMover = "P" /\ log = <<"P">>
  /\ playerSkill.power # 0
  /\ playerParty[playerCombatant].statModifiers["ATTACK"] = 6
  /\ enemyCombatant.statModifiers["DEFENSE"] = -6
  /\ enemyCombatant.currentHP < enemyCombatant.maxHP

\* C32: for the holder's max HP, base defense and the percent of the status
\* (10 for DEHYDRATED, 12 for BURNED), the end-of-turn tick
\* floor(maxHP * percent / (50 + baseDefense * multiplier of the DEFENSE
\* stage)) does not increase as the DEFENSE stage goes from -6 to +6, and
\* processEndOfTurn takes from the holder the ticks of the statuses it
\* carries, computed at its DEFENSE stage
C32_DotFallsWithDefense ==
  [][(pc = "eot" /\ pc' # "eot") =>
       LET pet == playerParty[playerCombatant]
           at(stage) == [World EXCEPT
                           !.party[playerCombatant].statModifiers["DEFENSE"] = stage]
           formula(percent, stage) ==
             (pet.maxHP * percent * 100)
               \div (5000 + BATTLE_PETS[pet.id].defense
                              * STAT_STAGE_MULTIPLIERS[stage])
           has(status) == \E n \in 1 .. Len(pet.statusEffects) :
                            pet.statusEffects[n] = status
           hazard == IF environmentalHazard # NoHazard /\ hazardPurifiedTurns <= 0
                     THEN (pet.maxHP * environmentalHazard.damagePercent) \div 100
                     ELSE 0
           taken == (IF has("DEHYDRATED")
                     THEN formula(10, pet.statModifiers["DEFENSE"]) ELSE 0)
                      + (IF has("BURNED")
                         THEN formula(12, pet.statModifiers["DEFENSE"]) ELSE 0)
                      + hazard
       IN /\ \A percent \in {10, 12} :
               /\ \A stage \in -6 .. 6 :
                    DoTDamage(at(stage), "P", percent) = formula(percent, stage)
               /\ \A stage \in -6 .. 5 :
                    DoTDamage(at(stage), "P", percent)
                      >= DoTDamage(at(stage + 1), "P", percent)
               /\ DoTDamage(at(-6), "P", percent) > DoTDamage(at(6), "P", percent)
          /\ playerParty'[playerCombatant].currentHP
               = (IF pet.currentHP > taken THEN pet.currentHP - taken ELSE 0)]_vars

\* the end of the turn has run on a DEHYDRATED pet at DEFENSE stage +6, and
\* the pet has lost HP
C32_Witness ==
  /\ pc = "check2" /\ log[Len(log)] = "EOT"
  /\ playerParty[playerCombatant].statusEffects = <<"DEHYDRATED">>
  /\ playerParty[playerCombatant].statModifiers["DEFENSE"] = 6
  /\ currentPhase = 1
  /\ playerParty[playerCombatant].currentHP
       < playerParty[playerCombatant].maxHP
  /\ playerParty[playerCombatant].currentHP
       > playerParty[playerCombatant].maxHP \div 2

\* C33: while the opponent is in phase 2, whose passive Boiling Rage is
\* statusImmune, its list of status effects stays empty, whatever moves the
\* pets use on it (Citrus Bite applies SOUR, Nori Bind applies TRAPPED)
C33_BoilingRageStatusImmune ==
  (currentPhase = 2 /\ enemyCombatant.passiveAbility.statusImmune) =>
    enemyCombatant.statusEffects = << >>

\* C34: while the opponent is in phase 3, whose passive Cornered Predator
\* gives all its attacks +1 priority, the opponent's move is the first of
\* the two moves of every skill turn, whichever pet is active and whatever
\* the SPEED stages
C34_CorneredPredatorMovesFirst ==
  (/\ currentPhase = 3 /\ enemyCombatant.passiveAbility.priority > 0
   /\ pc \in {"first", "second"}) => firstMover = "E"

\* C35: while the opponent has a passive with an evade chance (Slippery
\* Scales, phase 1), a PHYSICAL damaging move of the pet that passes its
\* accuracy check has an outcome in which the opponent evades it, taking no
\* damage and no status; and a damaging move of the opponent that passes
\* its accuracy check is never evaded: the pet loses HP
C35_SlipperyScalesEvades ==
  LET passes(attacker, defender, skill, r) ==
        \/ skill.neverMiss
        \/ checkAccuracy(
             (IF skill.accuracy # 0 THEN skill.accuracy ELSE 100)
               * getTypeAccuracyModifier(skill.type, TypesOf(World, defender)),
             Stage(World, attacker, "ACCURACY"),
             Stage(World, defender, "EVASION"), r.acc)
      toMove == IF pc = "first" THEN firstMover ELSE Other(firstMover)
  IN  (pc \in {"first", "second"}
       /\ enemyCombatant.passiveAbility.evadeChance # 0) =>
        /\ (toMove = "P" /\ playerSkill.category = "PHYSICAL"
            /\ playerSkill.power # 0) =>
             \E r \in SkillRolls(playerSkill) :
               /\ passes("P", "E", playerSkill, r)
               /\ executeSkill(World, "P", "E", playerSkill, r) = World
        /\ (toMove = "E" /\ enemySkill.power # 0) =>
             \A r \in SkillRolls(enemySkill) :
               passes("E", "P", enemySkill, r) =>
                 HP(executeSkill(World, "E", "P", enemySkill, r), "P")
                   < HP(World, "P")

\* C36: Dying Breath is a damaging move whose power comes from the HP the
\* opponent has lost: when an opponent that has lost HP uses it and the
\* accuracy draw passes, the pet's HP goes down, the opponent is healed if
\* the pet is knocked out, and otherwise the opponent loses HP to the
\* recoil of 25%
C36_DyingBreathStrikes ==
  (/\ pc \in {"first", "second"}
   /\ (IF pc = "first" THEN firstMover ELSE Other(firstMover)) = "E"
   /\ enemySkill.name = "Dying Breath"
   /\ enemyCombatant.currentHP < enemyCombatant.maxHP) =>
    \A r \in SkillRolls(enemySkill) :
      checkAccuracy(
        enemySkill.accuracy
          * getTypeAccuracyModifier(enemySkill.type, TypesOf(World, "P")),
        Stage(World, "E", "ACCURACY"), Stage(World, "P", "EVASION"), r.acc) =>
        LET after == executeSkill(World, "E", "P", enemySkill, r)
        IN /\ HP(after, "P") < HP(World, "P")
           /\ IF HP(after, "P") = 0
              THEN HP(after, "E") >= HP(World, "E")
              ELSE HP(after, "E") < HP(World, "E")

\* C37: a player input (Fight, Back, Swap, Flee, a skill card, a slot of the
\* swap menu) takes effect only while the battle state is PLAYER_TURN and no
\* resolution is in flight: a step of one of these handlers is never taken
\* during a move execution, a swap, a phase transition or the end-of-turn
\* processing, nor in any other battle state
C37_InputsOnlyOnPlayerTurn ==
  [][(\/ onFightClicked \/ showActionMenu \/ onSwapClicked \/ onFleeClicked
      \/ onSkillSelected \/ onPetSwapSelected) =>
       (battleState = "PLAYER_TURN" /\ pc = "idle")]_vars

\* C38: whenever the battle state is PLAYER_TURN, the active pet and the
\* opponent both have HP above 0, also after an end of turn in which HP was
\* lost and after a phase transition
C38_PlayerTurnBothStanding ==
  battleState = "PLAYER_TURN" =>
    /\ playerParty[playerCombatant].currentHP > 0
    /\ enemyCombatant.currentHP > 0

\* C39: the resolution of an accepted skill or swap action terminates. As a
\* property of finite runs: (a) a battle state of EXECUTING_MOVE or TURN_END
\* is only held while the scene runs and a resolution has a step left to
\* take; (b) every step of a resolution lowers a measure that is bounded
\* below (ten times the number of pets not yet replaced after fainting, plus
\* the distance of the position from the return to the player), so no
\* resolution runs in a circle; (c) a resolution forces at most one swap per
\* party member other than the pet that began it
C39_ResolutionTerminates ==
  [][LET position(at) ==
           CASE at = "swap" -> 8 [] at = "first" -> 7 [] at = "second" -> 6
             [] at = "enemyMove" -> 5 [] at = "check1" -> 4 [] at = "eot" -> 3
             [] at = "check2" -> 2 [] at = "faint" -> 1 [] at = "phase" -> 1
             [] OTHER -> 0
         measure(party, active, at) ==
           10 * (Cardinality({i \in DOMAIN party : party[i].currentHP > 0})
                   + (IF party[active].currentHP = 0 THEN 1 ELSE 0))
             + position(at)
         swaps(l) == Cardinality({k \in 1 .. Len(l) : l[k] = "AUTOSWAP"})
     IN /\ battleState' \in {"EXECUTING_MOVE", "TURN_END"} =>
             (~exited' /\ pc' \notin {"idle", "intro"})
        /\ (pc \notin {"idle", "intro"} /\ ~exited') =>
             measure(playerParty', playerCombatant', pc')
               < measure(playerParty, playerCombatant, pc)
        /\ swaps(log') <= Cardinality(DOMAIN playerParty) - 1]_vars

\* C40: between one start of the player's turn and the next, the end-of-turn
\* processing (status ticks, hazard damage, purification countdown, the
\* ATTACK gain of the phase's passive) runs at most once, also when a pet
\* faints and is replaced by force during that turn
C40_EndOfTurnOncePerTurn ==
  Cardinality({k \in 1 .. Len(log) : log[k] = "EOT"}) <= 1

====
